---- MODULE Spec2Model ----
(***************************************************************************)
(* A model of the browser engine's concurrency core:                       *)
(*   - the per-tab main thread (MainThread, Tab, Frame.load, TaskRunner),   *)
(*     specification Spec;                                                  *)
(*   - the network thread (dispatcher, worker pool, request/request_sync,   *)
(*     the HTTP client's shared structures), specification NetSpec, and     *)
(*     FairNetSpec, which adds the fairness of its running threads.         *)
(***************************************************************************)
EXTENDS Integers, Sequences, FiniteSets, TLC

VARIABLES
    \* ---- main thread of one tab ----
    event_queue,    \* MainThread.event_queue (FIFO of events)
    running,        \* MainThread.running
    pc,             \* position in MainThread.run: "event", "task", "render", "done", "crashed"
    tab,            \* the Tab and its root Frame
    tasks,          \* TaskRunner.tasks
    commit,         \* the last CommitData put on browser_commit_queue
    obs,            \* what the last step of the loop did (observation only)
    ran,            \* ids of the tasks run so far, in run order
    posted,         \* number of events posted so far
    scheduled,      \* number of tasks scheduled so far
    last_load,      \* outcome of the last Tab.load
    \* ---- network thread ----
    net,            \* NetworkThread, its queues, workers and callers
    \* ---- HTTP client ----
    client,         \* COOKIE_JAR, cache_manager, sockets and the clock
    \* ---- browser UI thread and compositor ----
    ui,             \* commit queue, active tab and commit, compositor data queue
    \* ---- stylesheet loading of one frame ----
    sheets,         \* Frame._load_stylesheets: pending requests and rules
    \* ---- subresources of one Frame.load ----
    page,           \* the CSP, the requests made, the script tasks and their runs
    \* ---- frames of a tab and the JS API ----
    frames,         \* the frames, their URLs and contexts, the calls scripts made
    \* ---- frame ids ----
    ids,            \* _frame_id_counter and the threads inside _generate_frame_id
    \* ---- DOM of a frame ----
    dom,            \* nodes, their parent and children, the exported handles
    \* ---- layout tree ----
    boxes,          \* the layout tree of a document and its geometry
    \* ---- compositor surfaces ----
    gpu,            \* surfaces, SDL texture, raster flags, data queue
    \* ---- connection pool ----
    pool,           \* HTTPBase._socket_map, the sockets, the threads inside request
    \* ---- clicks on a document ----
    clk,            \* the elements, their is_focus flags, tab.focus, the loads of a click
    \* ---- frame tree of a tab ----
    tree,           \* Tab.frames, child_frames, the display lists
    \* ---- keyboard focus ----
    kbd             \* chrome.focus, browser.focus, where the keys went

vars == <<event_queue, running, pc, tab, tasks, commit, obs, ran, posted,
          scheduled, last_load, net, client, ui, sheets,
          page, frames, ids, dom, boxes, gpu, pool, clk, tree, kbd>>

mainvars == <<event_queue, running, pc, tab, tasks, commit, obs, ran, posted,
              scheduled, last_load>>

\* the variables neither the main thread nor the network thread writes
morevars == <<pool, clk, tree, kbd>>
pagevars == <<page, frames, ids, dom, boxes, gpu, morevars>>
sidevars == <<client, ui, sheets, pagevars>>

\* the variables of the main thread, the network thread, the HTTP client, the
\* UI thread and the stylesheet loading
basevars == <<mainvars, net, client, ui, sheets>>

\* the variables the connection pool, the clicks, the frame tree and the
\* keyboard focus leave alone
restvars == <<basevars, page, frames, ids, dom, boxes, gpu>>

-----------------------------------------------------------------------------
(* Bounds of the model *)

MaxEvents == 3      \* events the browser thread posts to the tab
MaxQueue == 1       \* events waiting in event_queue at one time
MaxTasks == 2       \* tasks scheduled by timer and XHR threads

-----------------------------------------------------------------------------
(* Program constants *)

VSTEP == 18
SCROLL_STEP == 100
HEIGHT == 600
WIDTH == 800
DefaultMaxRedirects == 10   \* Frame.load(..., max_redirects=10)

-----------------------------------------------------------------------------
(* URLs *)

NoPort == -1        \* port is None
NoLoc == "<no location>"
NoUrl == [schema |-> "<none>", host |-> "", port |-> NoPort, path |-> ""]

AboutBlank == "about:blank"
ShortUrl == "https://a/short"
TallUrl == "https://a/tall"
LoopUrl == "https://a/loop"
NoLocUrl == "https://a/noloc"
ToDownUrl == "https://a/todown"
DownUrl == "https://down/"
Garbage == "garbage"
HopUrl(k) == "https://a/hop" \o ToString(k)

\* lengths of the redirect chains the harness serves: /hopk answers with k
\* consecutive redirects before the final document
Chains == {DefaultMaxRedirects - 1, DefaultMaxRedirects}

Hosts == {"a", "down"}
Paths == {"/", "/short", "/tall", "/loop", "/noloc", "/todown", "/s.js"}
            \cup {"/hop" \o ToString(k) : k \in 1..DefaultMaxRedirects}

\* URLFactory.parse: "about:blank" is special; otherwise split at "://", the
\* https class splits host and path at the first "/" and defaults the port.
ParseRaises(s) == s # AboutBlank /\ ~(\E h \in Hosts, p \in Paths : s = "https://" \o h \o p)

URLFactory_parse(s) ==
    IF s = AboutBlank
    THEN [schema |-> "about", host |-> "blank", port |-> NoPort, path |-> "/"]
    ELSE LET hp == CHOOSE hp \in Hosts \X Paths : s = "https://" \o hp[1] \o hp[2]
         IN [schema |-> "https", host |-> hp[1], port |-> 443, path |-> hp[2]]

\* URL.__str__
URL_str(u) ==
    LET port_part == IF u.schema = "https" /\ u.port = 443 THEN ""
                     ELSE IF u.schema = "http" /\ u.port = 80 THEN ""
                     ELSE ":" \o (IF u.port = NoPort THEN "None" ELSE ToString(u.port))
    IN IF u.schema = "file" THEN u.schema \o "://" \o u.path
       ELSE u.schema \o "://" \o u.host \o port_part \o u.path

-----------------------------------------------------------------------------
(* The exchange with the remote end, as NetworkThread._do_request reports it *)

\* url.request(): (status, headers, body, csp), or an exception
Exchange(u) ==
    IF u.schema = "about" THEN [raises |-> FALSE, status |-> 200, location |-> NoLoc, body |-> ""]
    ELSE IF u.host = "down" THEN [raises |-> TRUE, status |-> 0, location |-> NoLoc, body |-> ""]
    ELSE IF u.path = "/short" THEN [raises |-> FALSE, status |-> 200, location |-> NoLoc, body |-> "short"]
    ELSE IF u.path = "/tall" THEN [raises |-> FALSE, status |-> 200, location |-> NoLoc, body |-> "tall"]
    ELSE IF u.path = "/s.js" THEN [raises |-> FALSE, status |-> 200, location |-> NoLoc, body |-> "js"]
    ELSE IF u.path = "/loop" THEN [raises |-> FALSE, status |-> 302, location |-> LoopUrl, body |-> ""]
    ELSE IF u.path = "/noloc" THEN [raises |-> FALSE, status |-> 302, location |-> NoLoc, body |-> ""]
    ELSE IF u.path = "/todown" THEN [raises |-> FALSE, status |-> 302, location |-> DownUrl, body |-> ""]
    ELSE IF u.path = "/hop1" THEN [raises |-> FALSE, status |-> 302, location |-> TallUrl, body |-> ""]
    ELSE IF \E k \in 2..DefaultMaxRedirects : u.path = "/hop" \o ToString(k)
         THEN LET k == CHOOSE k \in 2..DefaultMaxRedirects : u.path = "/hop" \o ToString(k)
              IN [raises |-> FALSE, status |-> 302, location |-> HopUrl(k - 1), body |-> ""]
    ELSE [raises |-> FALSE, status |-> 404, location |-> NoLoc, body |-> ""]

\* NetworkThread._do_request: the NetworkResponse built from the exchange
DoRequestResponse(u) ==
    LET x == Exchange(u)
    IN IF x.raises
       THEN [status |-> 0, location |-> NoLoc, body |-> "", error |-> TRUE]
       ELSE [status |-> x.status, location |-> x.location, body |-> x.body, error |-> FALSE]

-----------------------------------------------------------------------------
(* Documents: the DOM a body parses to, and its layout *)

NoNodes == "<none>"     \* Frame.nodes / Frame.document / display list not built
NoPayload == "<none>"   \* payload is None

\* HTMLParser(body).parse(): the harness bodies stand for their trees; the
\* empty body parses to <html><body></body></html>
HTMLParser_parse(body) == body

\* DocumentLayout.layout: height of the laid-out document
DocumentHeight(nodes) ==
    IF nodes = "tall" THEN 2000 ELSE IF nodes = "short" THEN 100 ELSE 0

\* <script src> elements of a document, in document order
ScriptsOf(nodes) == IF nodes = "tall" THEN <<"https://a/s.js">> ELSE <<>>

\* the elements a click can land on
LinkHref(nodes) == IF nodes = "tall" THEN ShortUrl ELSE TallUrl
FormAction(nodes) == IF nodes = "tall" THEN NoLocUrl ELSE TallUrl
FormBody(value) == IF value = 0 THEN "q=" ELSE "q=text"

-----------------------------------------------------------------------------
(* Frame.load *)

Method(payload) == IF payload = NoPayload \/ payload = "" THEN "GET" ELSE "POST"

FallbackGivesUp(first) ==
    [url_obj |-> NoUrl,
     response |-> [status |-> 0, location |-> NoLoc, body |-> "", error |-> TRUE],
     fellback |-> TRUE, reqs |-> first]

\* Frame.load, lines 88-96: the except branch, which requests about:blank;
\* first holds the request the try block issued, if any
Fallback(first) ==
    [url_obj |-> URLFactory_parse(AboutBlank),
     response |-> DoRequestResponse(URLFactory_parse(AboutBlank)),
     fellback |-> TRUE,
     reqs |-> first \o <<[url |-> AboutBlank, method |-> "GET"]>>]

\* Frame.load, lines 76-86: the request of the parsed URL and its error test
FetchParsed(url, payload, url_obj, response) ==
    IF response.error
    THEN Fallback(<<[url |-> url, method |-> Method(payload)]>>)
    ELSE [url_obj |-> url_obj, response |-> response, fellback |-> FALSE,
          reqs |-> <<[url |-> url, method |-> Method(payload)]>>]

\* Frame.load, lines 73-96: the synchronous page fetch
PageFetch(url, payload) ==
    IF ParseRaises(url) THEN Fallback(<<>>)
    ELSE FetchParsed(url, payload, URLFactory_parse(url),
                     DoRequestResponse(URLFactory_parse(url)))

RECURSIVE FrameLoad(_, _, _, _), AfterFetch(_, _, _)

\* Frame.load, lines 98-116: parse the body, follow a redirect or adopt the
\* document; f is the fetch, reqs the requests issued before it
AfterFetch(f, max_redirects, reqs) ==
    IF 300 <= f.response.status /\ f.response.status < 400
    THEN IF f.response.location # NoLoc
         THEN FrameLoad(f.response.location, NoPayload, max_redirects - 1, reqs \o f.reqs)
         ELSE [raised |-> TRUE, why |-> "Redirect without Location header",
               url |-> NoUrl, nodes |-> NoNodes, status |-> f.response.status,
               fellback |-> f.fellback, reqs |-> reqs \o f.reqs]
    ELSE [raised |-> FALSE, why |-> "", url |-> f.url_obj,
          nodes |-> HTMLParser_parse(f.response.body), status |-> f.response.status,
          fellback |-> f.fellback, reqs |-> reqs \o f.reqs]

\* Frame.load(url, payload, max_redirects) up to the adoption of the new
\* document (lines 64-116); reqs collects the requests issued so far
FrameLoad(url, payload, max_redirects, reqs) ==
    IF max_redirects <= 0
    THEN [raised |-> TRUE, why |-> "Too many redirects", url |-> NoUrl,
          nodes |-> NoNodes, status |-> 0, fellback |-> FALSE, reqs |-> reqs]
    ELSE AfterFetch(PageFetch(url, payload), max_redirects, reqs)

NoLoad == [raised |-> FALSE, why |-> "", url |-> NoUrl, nodes |-> NoNodes,
           status |-> 0, fellback |-> FALSE, reqs |-> <<>>, asked |-> ""]

-----------------------------------------------------------------------------
(* Tab *)

\* what a display list is painted from: the tree, the value and the focus of
\* its input, the width of the viewport
NoPaint == [nodes |-> NoNodes, value |-> 0, focused |-> FALSE, width |-> 0]

\* Tab.__init__ for a chrome of height tab_height. gen numbers the root
\* Frames the tab has had, scripted holds the frames whose script has run,
\* discarded the frames whose JSContext is marked discarded, focus_gen the
\* frame the focused input belongs to, painted what display_list was painted
\* from.
NewTab(tab_height) ==
    [scroll |-> 0, width |-> WIDTH, height |-> HEIGHT - tab_height,
     history |-> <<>>, has_frame |-> FALSE, url |-> NoUrl, nodes |-> NoNodes,
     document |-> NoNodes, frame_needs_render |-> FALSE, needs_render |-> FALSE,
     display_list |-> NoNodes, focus |-> FALSE, value |-> 0, gen |-> 0,
     scripted |-> {}, discarded |-> {}, focus_gen |-> 0, painted |-> NoPaint]

\* Tab.get_max_y
get_max_y(t) ==
    IF t.has_frame /\ t.document # NoNodes
    THEN DocumentHeight(t.document) + 2 * VSTEP
    ELSE 0

Max(a, b) == IF a >= b THEN a ELSE b
Min(a, b) == IF a <= b THEN a ELSE b

\* Tab.scrolldown
scrolldown(t) ==
    LET max_scroll == Max(0, get_max_y(t) - t.height)
    IN [t EXCEPT !.scroll = Min(t.scroll + SCROLL_STEP, max_scroll)]

\* Tab.scollup
scollup(t) ==
    IF t.scroll <= 0 THEN t
    ELSE [t EXCEPT !.scroll = Max(0, t.scroll - SCROLL_STEP)]

\* MainThread._handle_event, SCROLL_TO branch
scroll_to(t, s) == [t EXCEPT !.scroll = s]

\* MainThread._handle_event, RESIZE branch
resize(t, w, h) == [t EXCEPT !.width = w, !.height = h, !.needs_render = TRUE]

\* the input of the current document has the focus
InputFocused(t) == t.focus /\ t.focus_gen = t.gen

\* style, layout and paint_tree: what the display list shows of the tab
PaintTree(t) ==
    [nodes |-> t.nodes,
     value |-> IF t.focus_gen = t.gen THEN t.value ELSE 0,
     focused |-> InputFocused(t),
     width |-> t.width]

\* Frame.render followed by Tab._composite_display_list
FrameRender(t) ==
    [t EXCEPT !.document = t.nodes, !.display_list = t.nodes,
              !.painted = PaintTree(t), !.frame_needs_render = FALSE]

\* Tab.render
TabRender(t) ==
    [(IF t.has_frame /\ t.frame_needs_render THEN FrameRender(t) ELSE t)
        EXCEPT !.needs_render = FALSE]

\* A world is what a handler works on: the tab, the TaskRunner's queue, the
\* number of tasks scheduled, whether an exception is propagating, the
\* outcome of the last load and whether the handler has called Tab.load.
World(t, q, n, l) ==
    [tab |-> t, tasks |-> q, scheduled |-> n, raised |-> FALSE, load |-> l,
     loaded |-> FALSE]

RECURSIVE ScheduleScripts(_, _, _, _)
\* Frame._load_scripts: one Task per fetched script, in document order
ScheduleScripts(scripts, q, n, gen) ==
    IF scripts = <<>> THEN [tasks |-> q, scheduled |-> n]
    ELSE IF ParseRaises(Head(scripts)) \/ DoRequestResponse(URLFactory_parse(Head(scripts))).error
         THEN ScheduleScripts(Tail(scripts), q, n, gen)
         ELSE ScheduleScripts(Tail(scripts),
                              Append(q, [id |-> n + 1, kind |-> "script", gen |-> gen]),
                              n + 1, gen)

\* Tab.load, lines 113-117: the history entry and the fresh root Frame
FreshFrame(t, url) ==
    [t EXCEPT !.history = Append(@, url), !.has_frame = TRUE,
              !.url = NoUrl, !.nodes = NoNodes, !.document = NoNodes,
              !.frame_needs_render = FALSE, !.gen = @ + 1]

\* the record kept of a load: Frame.load's outcome and the URL asked for
LoadRecord(r, url) ==
    [raised |-> r.raised, why |-> r.why, url |-> r.url, nodes |-> r.nodes,
     status |-> r.status, fellback |-> r.fellback, reqs |-> r.reqs, asked |-> url]

\* Frame.__init__, line 50: the Frame Tab.load builds has no JSContext yet
FreshHasContext == FALSE

\* Frame._load_scripts, lines 187-189: the JSContext the frame being loaded
\* already has is marked discarded, then the frame gets a new one
NewContext(t, has_context) ==
    IF has_context THEN [t EXCEPT !.discarded = @ \cup {t.gen}] ELSE t

\* Frame.load, lines 113-131, and Tab.load, line 123: adopt the document,
\* render, schedule the scripts, composite; s is what _load_scripts scheduled
Adopt(w, t1, r, s, url) ==
    [w EXCEPT !.tab = NewContext(FrameRender([t1 EXCEPT !.url = r.url,
                                                        !.nodes = r.nodes]),
                                 FreshHasContext),
              !.tasks = s.tasks, !.scheduled = s.scheduled,
              !.load = LoadRecord(r, url), !.loaded = TRUE]

\* Tab.load with r the outcome of Frame.load on the fresh frame t1
TabLoaded(w, t1, r, url) ==
    IF r.raised
    THEN [w EXCEPT !.tab = t1, !.raised = TRUE, !.load = LoadRecord(r, url),
                   !.loaded = TRUE]
    ELSE Adopt(w, t1, r,
               ScheduleScripts(ScriptsOf(r.nodes), w.tasks, w.scheduled, t1.gen), url)

\* Tab.load
TabLoad(w, url, payload) ==
    TabLoaded(w, FreshFrame(w.tab, url),
              FrameLoad(url, payload, DefaultMaxRedirects, <<>>), url)

\* Tab.go_back
go_back(w) ==
    IF Len(w.tab.history) > 1
    THEN TabLoad([w EXCEPT !.tab.history = SubSeq(@, 1, Len(@) - 1)],
                 w.tab.history[Len(w.tab.history) - 1], NoPayload)
    ELSE w

\* What the page's listeners do with a dispatched DOM event:
\* "default" lets the host act, "prevent" stops it, "throw" raises out of evaljs.
\* Only a frame whose script has run has listeners.
JsOutcomes == {"default", "prevent", "throw"}

\* Frame.dispatch_event / JSContext.dispatch_event
dispatch_event(t, js) == IF t.gen \in t.scripted THEN js ELSE "default"
ClickTargets == {"nothing", "a", "input", "button"}

\* Tab.submit_form
submit_form(w, js) ==
    IF dispatch_event(w.tab, js) = "throw" THEN [w EXCEPT !.raised = TRUE]
    ELSE IF dispatch_event(w.tab, js) = "prevent" THEN w
    ELSE TabLoad(w, FormAction(w.tab.nodes), FormBody(w.tab.value))

\* Tab.click: target is the element the hit test finds, js and js2 the
\* outcomes of the "click" and "submit" dispatches
click_unfocused(w1, target, js, js2) ==
    IF ~w1.tab.has_frame \/ w1.tab.document = NoNodes THEN w1
    ELSE IF target = "nothing" \/ w1.tab.nodes \notin {"short", "tall"} THEN w1
    ELSE IF dispatch_event(w1.tab, js) = "throw" THEN [w1 EXCEPT !.raised = TRUE]
    ELSE IF dispatch_event(w1.tab, js) = "prevent" THEN w1
    ELSE IF target = "a" THEN TabLoad(w1, LinkHref(w1.tab.nodes), NoPayload)
    ELSE IF target = "input"
         THEN [w1 EXCEPT !.tab.value = 0, !.tab.focus = TRUE,
                         !.tab.focus_gen = w1.tab.gen, !.tab.needs_render = TRUE]
    ELSE submit_form(w1, js2)

click(w, target, js, js2) == click_unfocused([w EXCEPT !.tab.focus = FALSE], target, js, js2)

\* Tab.keypress
keypress(w, js) ==
    IF ~w.tab.focus THEN w
    ELSE IF dispatch_event(w.tab, js) = "throw" THEN [w EXCEPT !.raised = TRUE]
    ELSE IF dispatch_event(w.tab, js) = "prevent" THEN w
    ELSE [w EXCEPT !.tab.value = @ + 1, !.tab.needs_render = TRUE]

\* Tab.backspace
backspace(w) ==
    IF w.tab.focus /\ w.tab.value > 0
    THEN [w EXCEPT !.tab.value = @ - 1, !.tab.needs_render = TRUE]
    ELSE w

-----------------------------------------------------------------------------
(* NetworkThread and the HTTP client: threads, requests, initial state *)

MaxRequests == 2    \* requests handed to NetworkThread.request / request_sync
MaxWorkers == 2     \* worker threads of the executor
MaxXhr == 1         \* XMLHttpRequest sends

\* the threads: the tabs' main threads, the executor's workers, the ad-hoc
\* thread of an asynchronous XMLHttpRequest
Mains == {"tab1", "tab2"}
Workers == {"worker" \o ToString(i) : i \in 1..MaxWorkers}
XhrThreads == {"xhr"}
XhrSenders == {"tab1"} \cup XhrThreads     \* the modelled tab's script sends
Fetchers == Workers \cup XhrSenders
NoThread == "<none>"

\* URLs handed to the network thread, and URLs a script of https://a sends to
\* (XMLHttpRequest_send answers a cross-origin URL with "403 Forbidden")
NetUrls == {TallUrl, DownUrl}
XhrUrls == {ShortUrl}

\* headers of the harness responses: cache-control: max-age, set-cookie,
\* connection: close
Cacheable(url) == url = TallUrl
SetsCookie(url) == url = ShortUrl
ClosesConnection(url) == url = ShortUrl

NoRequest == [request_id |-> 0, url |-> "", sync |-> FALSE, caller |-> NoThread]
NoResponse == [request_id |-> 0, status |-> -1, body |-> "", error |-> FALSE, url |-> ""]
Idle == [pc |-> "idle", url |-> "", request |-> NoRequest, raised |-> FALSE]

\* NetworkThread._do_request, lines 114-140: the NetworkResponse for a request
\* whose exchange returned or raised
NetworkResponse(request, raised) ==
    IF raised
    THEN [request_id |-> request.request_id, status |-> 0, body |-> "",
          error |-> TRUE, url |-> request.url]
    ELSE [request_id |-> request.request_id,
          status |-> Exchange(URLFactory_parse(request.url)).status,
          body |-> Exchange(URLFactory_parse(request.url)).body,
          error |-> FALSE, url |-> request.url]

PendingKeep(pending, request_id) == pending

\* NetworkThread._do_request, line 146
PendingPop(pending, request_id) == pending \ {request_id}

\* NetworkThread.__init__ and start(), as get_network_thread() leaves it, with
\* the module-level COOKIE_JAR, cache_manager._cache and HTTPBase._socket_map
NewNetworkThread ==
    [running |-> TRUE, shutdown |-> FALSE, lock |-> NoThread, counter |-> 0,
     request_queue |-> <<>>, response_queue |-> <<>>, pending |-> {},
     work |-> <<>>,
     dispatcher |-> [pc |-> "loop", request |-> NoRequest],
     caller |-> [c \in Mains |-> [pc |-> "idle", request |-> NoRequest]],
     requests |-> [i \in 1..MaxRequests |-> NoRequest],
     live |-> {},
     calls |-> [i \in 1..MaxRequests |-> 0],
     got |-> [i \in 1..MaxRequests |-> NoResponse],
     returned |-> [c \in Mains |-> NoResponse],
     fetch |-> [t \in Fetchers |-> Idle],
     cache |-> {}, cookies |-> {}, sockets |-> {}, xhrs |-> 0]

-----------------------------------------------------------------------------
(* The HTTP client: COOKIE_JAR, cache_manager, the socket map, HTTPSURL.request *)

MaxClock == 3       \* the clock runs from 0 to MaxClock
MaxAge == 2         \* the largest max-age a response carries
MaxOps == 2         \* requests made through the client
MaxCalls == 3       \* direct calls made on the cache

ClientUrls == {TallUrl, ShortUrl}
Payloads == {NoPayload, FormBody(1)}
\* the referrer a caller passes: None, a page of the target's host, a page of
\* another host
Referrers == {NoUrl, URLFactory_parse(TallUrl), URLFactory_parse(DownUrl)}

\* the directives a Cache-Control header is made of
MaxAgeDirective(n) == "max-age=" \o ToString(n)
CacheControls ==
    {<<>>, <<"no-store", MaxAgeDirective(1)>>, <<"public", MaxAgeDirective(1)>>}
        \cup {<<MaxAgeDirective(n)>> : n \in 0..MaxAge}

\* a Set-Cookie header, split at ";" and each parameter at "="
NoSetCookie == <<>>
SetCookies ==
    {NoSetCookie,
     <<[name |-> "token", value |-> "1"]>>,
     <<[name |-> "token", value |-> "1"], [name |-> "SameSite", value |-> "Lax"]>>}

\* what a server answers: status, headers, body (the csp travels with the
\* headers it is read from)
Reply(cc, sc, k, b) ==
    [status |-> 200, cache_control |-> cc, set_cookie |-> sc, connection |-> k,
     body |-> b]
NoReply == [status |-> 0, cache_control |-> <<>>, set_cookie |-> NoSetCookie,
            connection |-> "", body |-> ""]

\* the replies that differ in what the cache makes of them
CacheReplies ==
    {Reply(cc, NoSetCookie, "keep-alive", "v1") : cc \in CacheControls}
        \cup {Reply(<<MaxAgeDirective(MaxAge)>>, NoSetCookie, "keep-alive", "v2")}

\* the replies the harness serves: those, and the ones that set a cookie or
\* close the connection
Replies ==
    CacheReplies
        \cup {Reply(<<>>, sc, "keep-alive", "v1") : sc \in SetCookies}
        \cup {Reply(<<>>, NoSetCookie, "close", "v1")}

\* str.casefold on the parameter names and values the harness serves
Casefold(s) ==
    IF s = "SameSite" THEN "samesite" ELSE IF s = "Lax" THEN "lax" ELSE s

\* ---- CacheManager ----

NoMaxAge == -1      \* max_age is None
NoEntry == [reply |-> NoReply, expires_at |-> 0, stored_at |-> 0]

IsMaxAge(directive) == \E n \in 0..(MaxAge + 1) : directive = MaxAgeDirective(n)
MaxAgeValue(directive) == CHOOSE n \in 0..(MaxAge + 1) : directive = MaxAgeDirective(n)

\* CacheManager.set, lines 31-36: the value of the first max-age directive
FirstMaxAge(cache_control) ==
    IF \E i \in DOMAIN cache_control : IsMaxAge(cache_control[i])
    THEN MaxAgeValue(cache_control[CHOOSE i \in DOMAIN cache_control :
                                      /\ IsMaxAge(cache_control[i])
                                      /\ \A j \in 1..(i - 1) : ~IsMaxAge(cache_control[j])])
    ELSE NoMaxAge

\* CacheManager.set, line 27
HasNoStore(cache_control) == \E i \in DOMAIN cache_control : cache_control[i] = "no-store"

\* CacheManager.get with the test of line 16 turned into ">"
CacheManager_getLate(cache, url_str, now) ==
    IF cache[url_str] = NoEntry
    THEN [cache |-> cache, lookup |-> "absent", entry |-> NoEntry]
    ELSE IF now > cache[url_str].expires_at
         THEN [cache |-> [cache EXCEPT ![url_str] = NoEntry], lookup |-> "expired",
               entry |-> NoEntry]
         ELSE [cache |-> cache, lookup |-> "hit", entry |-> cache[url_str]]

\* CacheManager.get: the cache after the call, what the lookup found and the
\* entry returned (NoEntry for None)
CacheManager_get(cache, url_str, now) ==
    IF cache[url_str] = NoEntry
    THEN [cache |-> cache, lookup |-> "absent", entry |-> NoEntry]
    ELSE IF now >= cache[url_str].expires_at
         THEN [cache |-> [cache EXCEPT ![url_str] = NoEntry], lookup |-> "expired",
               entry |-> NoEntry]
         ELSE [cache |-> cache, lookup |-> "hit", entry |-> cache[url_str]]

\* CacheManager.set without the no-store test of lines 27-28
CacheManager_setAlways(cache, url_str, reply, now) ==
    IF FirstMaxAge(reply.cache_control) = NoMaxAge THEN cache
    ELSE [cache EXCEPT ![url_str] =
             [reply |-> reply,
              expires_at |-> now + FirstMaxAge(reply.cache_control),
              stored_at |-> now]]

\* CacheManager.set: the cache after the call (stored_at is kept for the
\* properties only)
CacheManager_set(cache, url_str, reply, now) ==
    IF HasNoStore(reply.cache_control) THEN cache
    ELSE IF FirstMaxAge(reply.cache_control) = NoMaxAge THEN cache
    ELSE [cache EXCEPT ![url_str] =
             [reply |-> reply,
              expires_at |-> now + FirstMaxAge(reply.cache_control),
              stored_at |-> now]]

\* ---- COOKIE_JAR ----

NoReceived == [reply |-> NoReply, at |-> 0, method |-> ""]
NoCookie == [cookie |-> "", samesite |-> "<absent>"]    \* host not in COOKIE_JAR

\* _read_http_response, lines 106-117: params.get("samesite", "none") of the
\* parameters stored with the cookie
SameSiteOf(set_cookie) ==
    IF \E i \in 2..Len(set_cookie) : Casefold(set_cookie[i].name) = "samesite"
    THEN Casefold(set_cookie[CHOOSE i \in 2..Len(set_cookie) :
                                Casefold(set_cookie[i].name) = "samesite"].value)
    ELSE "none"

StoreCookie(jar, host, set_cookie) ==
    IF set_cookie = NoSetCookie THEN jar
    ELSE [jar EXCEPT ![host] =
             [cookie |-> set_cookie[1].name \o "=" \o set_cookie[1].value,
              samesite |-> SameSiteOf(set_cookie)]]

\* _send_http_request, line 24
RequestMethod(payload) == IF payload = NoPayload \/ payload = "" THEN "GET" ELSE "POST"

\* _send_http_request, lines 34-42: is the Cookie header sent
AllowCookie(entry, host, referrer, payload) ==
    /\ entry # NoCookie
    /\ IF referrer # NoUrl /\ entry.samesite = "lax" /\ RequestMethod(payload) # "GET"
       THEN host = referrer.host
       ELSE TRUE

\* ---- the client as a whole ----

NoLast ==
    [op |-> "none", at |-> 0, url |-> "", method |-> "", referrer |-> NoUrl,
     stored |-> NoCookie, cookie_sent |-> FALSE, lookup |-> "none",
     entry |-> NoEntry, prior |-> NoReceived, from_cache |-> FALSE,
     socket_opened |-> FALSE, socket_used |-> FALSE, reply |-> NoReply]

NewClient ==
    [now |-> 0,
     cache |-> [u \in ClientUrls |-> NoEntry],      \* cache_manager._cache
     jar |-> [h \in Hosts |-> NoCookie],            \* COOKIE_JAR
     sockets |-> {},                                \* HTTPBase._socket_map
     received |-> [u \in ClientUrls |-> NoReceived],   \* the last reply read for a URL
     ops |-> 0,
     last |-> NoLast]                               \* the last call and its outcome

\* HTTPSURL.request, lines 16-18: the cache has the response
ServeCached(c, url, referrer, payload, got) ==
    [c EXCEPT !.ops = @ + 1,
              !.last = [NoLast EXCEPT !.op = "request", !.at = c.now, !.url = url,
                                      !.method = RequestMethod(payload),
                                      !.referrer = referrer,
                                      !.lookup = "hit", !.entry = got.entry,
                                      !.prior = c.received[url],
                                      !.from_cache = TRUE,
                                      !.reply = got.entry.reply]]

\* HTTPSURL.request, lines 21-41: socket from the map or a new one, send, read
\* (Set-Cookie stored), Connection: close, cache_manager.set
FetchReply(c, url, host, referrer, payload, got, reply) ==
    [c EXCEPT !.ops = @ + 1,
              !.cache = CacheManager_set(got.cache, url, reply, c.now),
              !.jar = StoreCookie(@, host, reply.set_cookie),
              !.sockets = IF reply.connection = "close" THEN @ \ {host}
                          ELSE @ \cup {host},
              !.received[url] = [reply |-> reply, at |-> c.now,
                                 method |-> RequestMethod(payload)],
              !.last = [NoLast EXCEPT !.op = "request", !.at = c.now, !.url = url,
                                      !.method = RequestMethod(payload),
                                      !.referrer = referrer,
                                      !.stored = c.jar[host],
                                      !.cookie_sent = AllowCookie(c.jar[host], host,
                                                                  referrer, payload),
                                      !.lookup = got.lookup,
                                      !.prior = c.received[url],
                                      !.socket_opened = host \notin c.sockets,
                                      !.socket_used = TRUE,
                                      !.reply = reply]]

\* HTTPSURL.request
HTTPSURL_requestWith(c, url, referrer, payload, got, reply) ==
    IF got.lookup = "hit"
    THEN ServeCached(c, url, referrer, payload, got)
    ELSE FetchReply(c, url, URLFactory_parse(url).host, referrer, payload, got, reply)

HTTPSURL_request(c, url, referrer, payload, reply) ==
    HTTPSURL_requestWith(c, url, referrer, payload,
                         CacheManager_get(c.cache, url, c.now), reply)

\* Frame.load passes referrer=self.url, and Tab.load calls it on the Frame it
\* has just built, whose url is still None
LoadReferrer == NoUrl


-----------------------------------------------------------------------------
(* The browser UI thread and the compositor *)

MaxCommits == 2     \* commits each main thread publishes
MaxSwitches == 1    \* clicks on a tab of the chrome

NoTab == "<none>"                           \* active_tab is None
NoUiCommit == [tab_id |-> NoTab, n |-> 0]   \* active_commit is None
NoPacket == [seq |-> 0, commit |-> NoUiCommit]

\* CompositorThread.__init__, with what the properties need to know of its
\* frames: the packets taken and dropped, and the packets rendered
NewCompositor ==
    [pc |-> "drain",
     latest_data |-> NoPacket,
     current_data |-> NoPacket,
     taken |-> 0,           \* packets taken from the queue in this frame
     at_empty |-> 0,        \* packets submitted when the queue was found empty
     skipped |-> {},        \* packets taken and replaced by a newer one
     rendered |-> {}]       \* packets _render_frame has drawn

\* Browser.__init__
NewUi ==
    [pc |-> "events",
     tabs |-> {},
     active_tab |-> NoTab,
     active_commit |-> NoUiCommit,
     adopted_for |-> NoTab,                 \* the active tab when active_commit was set
     switches |-> 0,
     commit_queue |-> <<>>,
     published |-> [t \in Mains |-> 0],     \* commits each tab has published
     seen |-> [t \in Mains |-> 0],          \* the same, when the last drain ended
     drained |-> FALSE,                     \* the last UI step ended a drain
     data_queue |-> <<>>,                   \* CompositorThread.data_queue
     submitted |-> 0,
     comp |-> NewCompositor]

\* Browser.submit_to_compositor: the packet carries active_commit
submit_to_compositor(u) ==
    [u EXCEPT !.submitted = @ + 1,
              !.data_queue = Append(@, [seq |-> u.submitted + 1,
                                        commit |-> u.active_commit])]

\* Browser.process_commits, lines 316-318: only a commit of the active tab is
\* applied; on_tab_content_changed then submits to the compositor
ApplyCommit(u, commit_data) ==
    IF u.active_tab # NoTab /\ commit_data.tab_id = u.active_tab
    THEN submit_to_compositor([u EXCEPT !.active_commit = commit_data,
                                        !.adopted_for = u.active_tab])
    ELSE u

\* CompositorThread._process_data_queue keeping the first packet it takes
KeepFirst(comp, data) ==
    [comp EXCEPT !.latest_data = IF comp.taken = 0 THEN data ELSE @,
                 !.taken = @ + 1,
                 !.skipped = IF comp.taken = 0 THEN @ ELSE @ \cup {data.seq}]

\* CompositorThread._process_data_queue, line 128: latest_data is overwritten
\* by each packet taken
KeepLatest(comp, data) ==
    [comp EXCEPT !.latest_data = data,
                 !.taken = @ + 1,
                 !.skipped = IF comp.taken = 0 THEN @ ELSE @ \cup {comp.latest_data.seq}]

-----------------------------------------------------------------------------
(* Frame._load_stylesheets *)

MaxSheets == 3      \* stylesheet links of a document

\* the links of a document, numbered in document order
Sheets == 1..MaxSheets

\* Frame.load up to line 116: rules is the default style sheet (no linked
\* rule yet). pending is pending_requests, holder the response each callback
\* stored ("none" while it has not run), arrived the sheets in the order
\* their callbacks ran, next the index of the pending request waited for.
NewSheets ==
    [pc |-> "start",
     links |-> 0,
     pending |-> <<>>,
     holder |-> [s \in Sheets |-> "none"],
     arrived |-> <<>>,
     timed_out |-> {},
     next |-> 1,
     rules |-> <<>>]

RECURSIVE PendingRequests(_, _, _)
\* _load_stylesheets, lines 146-166: one request per link the CSP allows, in
\* document order
PendingRequests(from, links, blocked) ==
    IF from > links THEN <<>>
    ELSE IF from \in blocked THEN PendingRequests(from + 1, links, blocked)
    ELSE <<from>> \o PendingRequests(from + 1, links, blocked)

\* _load_stylesheets, lines 171-176: the rules of a sheet that answered
\* without error are appended
ExtendRules(rules, sheet, response) ==
    IF response = "ok" THEN Append(rules, sheet) ELSE rules

-----------------------------------------------------------------------------
(* Content Security Policy and the subresources of one Frame.load *)

MaxScripts == 3     \* <script src> elements of a document
MaxTimers == 1      \* timer tasks scheduled while the page loads and runs

ResourceHosts == {"a", "b"}
DirectiveNames == {"style-src", "script-src", "frame-src", "connect-src", "default-src"}

\* directives.get(name) is None
Absent == <<"<absent>">>

\* the directive values of the policies the pages are served with
KindValues == {Absent, <<"a">>}
DefaultValues == {Absent, <<"'none'">>, <<"*">>, <<"'self'", "b">>}

\* self.csp is None: the response had no Content-Security-Policy header
NoCsp == [present |-> FALSE, directives |-> [n \in DirectiveNames |-> Absent]]

\* ContentSecurityPolicy.parse: the directives of a header
Policy(st, sc, fr, co, de) ==
    [present |-> TRUE,
     directives |-> [n \in DirectiveNames |->
                        CASE n = "style-src" -> st
                          [] n = "script-src" -> sc
                          [] n = "frame-src" -> fr
                          [] n = "connect-src" -> co
                          [] OTHER -> de]]

\* the policies the documents are served with
Csps ==
    {NoCsp} \cup
    {Policy(st, sc, fr, Absent, de) :
        st \in KindValues, sc \in KindValues, fr \in KindValues, de \in DefaultValues}

\* the policies the frames that run scripts are served with
ConnectCsps ==
    {NoCsp, Policy(Absent, Absent, Absent, <<"a">>, Absent),
     Policy(Absent, Absent, Absent, Absent, <<"'none'">>)}

\* ContentSecurityPolicy._match_host_source for a source https://host/... and
\* a pattern without wildcard
match_host_source(source, pattern) == source = pattern

RECURSIVE check_source_against_values(_, _)
\* ContentSecurityPolicy._check_source_against_values for the URL of a
\* resource on host source
check_source_against_values(source, values) ==
    IF values = <<>> THEN FALSE
    ELSE IF Head(values) = "'none'" THEN FALSE
    ELSE IF Head(values) = "*" THEN TRUE
    ELSE IF Head(values) = "'self'" THEN check_source_against_values(source, Tail(values))
    ELSE IF match_host_source(source, Head(values)) THEN TRUE
    ELSE check_source_against_values(source, Tail(values))

\* ContentSecurityPolicy.allows_source
allows_source(csp, directive, source) ==
    IF csp.directives[directive] # Absent
    THEN check_source_against_values(source, csp.directives[directive])
    ELSE IF csp.directives["default-src"] # Absent
    THEN check_source_against_values(source, csp.directives["default-src"])
    ELSE TRUE

\* allows_style, allows_script, allows_frame: the directive of each kind
DirectiveOf(kind) ==
    CASE kind = "stylesheet" -> "style-src"
      [] kind = "script" -> "script-src"
      [] OTHER -> "frame-src"

\* a loader that asks the policy for no kind of resource
CspNeverBlocks(csp, kind, source) == FALSE

\* Frame._load_stylesheets line 149, _load_scripts line 198, _load_iframes
\* lines 239-240: the resource is skipped
CspBlocks(csp, kind, source) ==
    csp.present /\ ~allows_source(csp, DirectiveOf(kind), source)

NoIframe == "<none>"

\* the documents: one stylesheet link, up to MaxScripts scripts, an iframe or
\* none; each resource is named by the host of its resolved URL
ScriptLists == UNION {[1..n -> ResourceHosts] : n \in 0..MaxScripts}

\* a Frame before load (Frame.__init__), the TaskRunner of its tab empty
NewPage ==
    [pc |-> "fetch",
     csp |-> NoCsp,
     sheet |-> "a",
     scripts |-> <<>>,
     iframe |-> NoIframe,
     requested |-> <<>>,        \* the resources asked of the network, in order
     rendered |-> FALSE,        \* Frame.render has run
     next |-> 1,                \* the script _load_scripts is at
     failed |-> {},             \* the scripts whose fetch failed
     tasks |-> <<>>,            \* TaskRunner.tasks
     timers |-> 0,
     executed |-> <<>>]         \* the tasks run, in order

\* a task scheduled at the head of the queue
schedule_task_first(q, task) == <<task>> \o q

\* TaskRunner.schedule_task
schedule_task(q, task) == Append(q, task)

\* network.request / request_sync / child_frame.load: the resource is asked
\* of the network
Request(pg, kind, index, host) ==
    [pg EXCEPT !.requested = Append(@, [kind |-> kind, index |-> index, host |-> host])]

-----------------------------------------------------------------------------
(* The frames of a tab and the host functions of their JS contexts *)

MaxJsCalls == 2     \* host-function calls the scripts make

FrameNames == {"root", "child"}

\* the URLs the frames are loaded from and the scripts name
FrameUrls ==
    {[schema |-> "https", host |-> h, port |-> pt, path |-> "/"] :
        h \in ResourceHosts, pt \in {443}} \cup
    {[schema |-> "https", host |-> "a", port |-> 8443, path |-> "/"]}

\* URL.origin
origin(u) ==
    IF u.port = NoPort THEN u.schema \o "://" \o u.host
    ELSE u.schema \o "://" \o u.host \o ":" \o ToString(u.port)

\* the target_origin arguments of postMessage
TargetOrigins == {"*"} \cup {origin(u) : u \in FrameUrls}

NoFrame == "<none>"
NoId == 0           \* the frame has no js_context

\* the record of the last host-function call and of what it did
NoCall ==
    [api |-> "", caller |-> NoFrame, target |-> NoFrame, url |-> NoUrl,
     caller_url |-> NoUrl, target_url |-> NoUrl, target_csp |-> NoCsp,
     target_origin |-> "", returned |-> "", requested |-> FALSE,
     started |-> FALSE, exported |-> FALSE, loaded |-> FALSE, delivered |-> FALSE]

\* a tab before its first load: no frame has a document
NewFrames ==
    [pc |-> "empty",
     url |-> [f \in FrameNames |-> NoUrl],
     csp |-> [f \in FrameNames |-> NoCsp],
     frame_id |-> [f \in FrameNames |-> NoId],
     counter |-> 0,             \* _frame_id_counter
     calls |-> 0,
     granted |-> 0,             \* XMLHttpRequest_send calls not answered 403
     requests |-> 0,            \* url_obj.request calls made for XHRs
     threads |-> 0,             \* run_load threads started and not yet run
     tasks |-> 0,               \* onload tasks scheduled
     events |-> 0,              \* message events dispatched
     last |-> NoCall]

\* Tab.frames: the frames that have a js_context
TabFrames(fr) == {f \in FrameNames : fr.frame_id[f] # NoId}

\* JSContext._find_frame_by_id
find_frame_by_id(fr, caller, frame_id) ==
    IF fr.frame_id[caller] = frame_id THEN caller
    ELSE IF \E f \in TabFrames(fr) : fr.frame_id[f] = frame_id
    THEN CHOOSE f \in TabFrames(fr) : fr.frame_id[f] = frame_id
    ELSE NoFrame

\* `_find_frame_by_id(frame_id) or self.frame'
FrameOr(fr, caller, frame_id) ==
    IF find_frame_by_id(fr, caller, frame_id) = NoFrame THEN caller
    ELSE find_frame_by_id(fr, caller, frame_id)

\* JSContext.is_same_origin
is_same_origin(fr, caller, other) ==
    /\ fr.url[caller] # NoUrl
    /\ fr.url[other] # NoUrl
    /\ origin(fr.url[caller]) = origin(fr.url[other])

\* the call recorded as the last call, with the URLs and the policy the
\* frames had when it was made; fr is the tab as the call leaves it
Called(fr, before, call) ==
    [fr EXCEPT !.calls = @ + 1,
               !.granted = IF call.api = "XMLHttpRequest_send"
                              /\ call.returned # "403 Forbidden"
                           THEN @ + 1 ELSE @,
               !.last = [call EXCEPT
                           !.caller_url = before.url[call.caller],
                           !.target_url = IF call.target = NoFrame THEN NoUrl
                                          ELSE before.url[call.target],
                           !.target_csp = IF call.target = NoFrame THEN NoCsp
                                          ELSE before.csp[call.target]]]

\* XMLHttpRequest_send without the origin check
XMLHttpRequest_sendAnyOrigin(fr, caller, frame_id, url, is_async) ==
    Called([fr EXCEPT !.threads = @ + 1], fr,
           [NoCall EXCEPT !.api = "XMLHttpRequest_send", !.caller = caller,
                          !.target = FrameOr(fr, caller, frame_id), !.url = url,
                          !.returned = "", !.started = TRUE])

\* JSContext.XMLHttpRequest_send: the checks, then run_load on this thread
\* (the request, the onload task, the body returned) or on a new thread
XMLHttpRequest_send(fr, caller, frame_id, url, is_async) ==
    IF \/ origin(url) # origin(fr.url[FrameOr(fr, caller, frame_id)])
       \/ /\ fr.csp[FrameOr(fr, caller, frame_id)].present
          /\ ~allows_source(fr.csp[FrameOr(fr, caller, frame_id)], "connect-src", url.host)
    THEN Called(fr, fr, [NoCall EXCEPT !.api = "XMLHttpRequest_send", !.caller = caller,
                                   !.target = FrameOr(fr, caller, frame_id), !.url = url,
                                   !.returned = "403 Forbidden"])
    ELSE IF is_async
    THEN Called([fr EXCEPT !.threads = @ + 1], fr,
                [NoCall EXCEPT !.api = "XMLHttpRequest_send", !.caller = caller,
                               !.target = FrameOr(fr, caller, frame_id), !.url = url,
                               !.returned = "", !.started = TRUE])
    ELSE Called([fr EXCEPT !.requests = @ + 1, !.tasks = @ + 1], fr,
                [NoCall EXCEPT !.api = "XMLHttpRequest_send", !.caller = caller,
                               !.target = FrameOr(fr, caller, frame_id), !.url = url,
                               !.returned = "body", !.requested = TRUE])

\* JSContext.querySelectorAll: the handles of the matching nodes of the
\* target frame, exported by get_handle, or the empty list
querySelectorAll(fr, caller, frame_id) ==
    IF FrameOr(fr, caller, frame_id) # caller
       /\ ~is_same_origin(fr, caller, FrameOr(fr, caller, frame_id))
    THEN Called(fr, fr, [NoCall EXCEPT !.api = "querySelectorAll", !.caller = caller,
                                   !.target = FrameOr(fr, caller, frame_id),
                                   !.returned = "[]"])
    ELSE Called(fr, fr, [NoCall EXCEPT !.api = "querySelectorAll", !.caller = caller,
                                   !.target = FrameOr(fr, caller, frame_id),
                                   !.returned = "[handle]", !.exported = TRUE])

\* JSContext.getLocationHref
getLocationHref(fr, caller, frame_id) ==
    Called(fr, fr, [NoCall EXCEPT !.api = "getLocationHref", !.caller = caller,
                              !.target = FrameOr(fr, caller, frame_id),
                              !.returned = IF fr.url[FrameOr(fr, caller, frame_id)] # NoUrl
                                           THEN URL_str(fr.url[FrameOr(fr, caller, frame_id)])
                                           ELSE ""])

\* Frame.load of a frame of the tab, called by setLocationHref: the frame
\* gets the document and a new JSContext; a root frame that reloads drops
\* its child frames
Reload(fr, target, url) ==
    [fr EXCEPT !.url = [f \in FrameNames |->
                          IF f = target THEN url
                          ELSE IF target = "root" THEN NoUrl ELSE @[f]],
               !.csp = [f \in FrameNames |->
                          IF f = target \/ target = "root" THEN NoCsp ELSE @[f]],
               !.frame_id = [f \in FrameNames |->
                               IF f = target THEN fr.counter + 1
                               ELSE IF target = "root" THEN NoId ELSE @[f]],
               !.counter = @ + 1]

\* JSContext.setLocationHref
setLocationHref(fr, caller, frame_id, url) ==
    IF FrameOr(fr, caller, frame_id) # caller
       /\ ~is_same_origin(fr, caller, FrameOr(fr, caller, frame_id))
    THEN Called(fr, fr, [NoCall EXCEPT !.api = "setLocationHref", !.caller = caller,
                                   !.target = FrameOr(fr, caller, frame_id), !.url = url])
    ELSE Called(Reload(fr, FrameOr(fr, caller, frame_id), url), fr,
                [NoCall EXCEPT !.api = "setLocationHref", !.caller = caller,
                               !.target = FrameOr(fr, caller, frame_id), !.url = url,
                               !.loaded = TRUE])

\* JSContext.postMessage: every path returns without dispatching (line 239
\* is a comment); a call that finds no target frame names no target
postMessage(fr, caller, target_frame_id, target_origin) ==
    Called(fr, fr, [NoCall EXCEPT !.api = "postMessage", !.caller = caller,
                              !.target = find_frame_by_id(fr, caller, target_frame_id),
                              !.target_origin = target_origin])

-----------------------------------------------------------------------------
(* Frame ids: _frame_id_counter and _generate_frame_id *)

MaxFrameLoads == 2  \* loads and reloads each main thread performs

\* the Frame objects: the n-th Frame the tab of a main thread has built
FrameObjects == Mains \X (1..MaxFrameLoads)

\* js_context.py line 27, and the main threads outside JSContext.__init__.
\* frame_id is the id of the JSContext each Frame has now, had the ids it has
\* had.
NewIds ==
    [counter |-> 0,
     thread |-> [t \in Mains |-> [pc |-> "idle", tmp |-> 0, frame |-> 0, loads |-> 0]],
     frame_id |-> [f \in FrameObjects |-> NoId],
     had |-> [f \in FrameObjects |-> {}]]

-----------------------------------------------------------------------------
(* The DOM: HTMLParser and JSContext.innerHTML_set *)

MaxTokens == 2      \* tags and texts of a document body or an innerHTML value
MaxSets == 2        \* innerHTML_set calls
MaxHandles == 2     \* nodes exported to JavaScript

\* what HTMLParser.parse hands to add_tag and add_text: an opening tag, a
\* closing tag, a self-closing tag, a text
Tokens == {"p", "/p", "br", "#text"}
TokenSeqs == UNION {[1..n -> Tokens] : n \in 0..MaxTokens}

NoNode == 0         \* parent is None

\* Element.__init__ / Text.__init__
Node(tag, parent) == [tag |-> tag, parent |-> parent, children |-> <<>>]

\* a parser over the nodes built so far: HTMLParser.__init__
NewParser(nodes) == [nodes |-> nodes, unfinished |-> <<>>]

Last(q) == q[Len(q)]
Front(q) == SubSeq(q, 1, Len(q) - 1)

\* add_tag, lines 83-85: an element is opened
Open(ps, tag) ==
    [nodes |-> Append(ps.nodes,
                      Node(tag, IF ps.unfinished = <<>> THEN NoNode ELSE Last(ps.unfinished))),
     unfinished |-> Append(ps.unfinished, Len(ps.nodes) + 1)]

\* add_text, lines 62-64, and add_tag, lines 78-80: a text or a
\* self-closing element under the innermost open element
Leaf(ps, tag) ==
    [ps EXCEPT !.nodes = [Append(ps.nodes, Node(tag, Last(ps.unfinished)))
                             EXCEPT ![Last(ps.unfinished)].children =
                                        Append(@, Len(ps.nodes) + 1)]]

\* add_tag, lines 72-75, and finish, lines 92-94: the innermost open element
\* is finished and appended to its parent's children
Close(ps) ==
    [nodes |-> [ps.nodes EXCEPT ![Last(Front(ps.unfinished))].children =
                                    Append(@, Last(ps.unfinished))],
     unfinished |-> Front(ps.unfinished)]

\* HTMLParser.implicit_tags for tokens that are no head tags: <html> and
\* <body> are opened when missing
implicit_tags(ps, tag) ==
    IF ps.unfinished = <<>> /\ tag # "html"
    THEN (IF tag \in {"head", "body", "/html"} THEN Open(ps, "html")
          ELSE Open(Open(ps, "html"), "body"))
    ELSE IF Len(ps.unfinished) = 1 /\ ps.nodes[ps.unfinished[1]].tag = "html"
            /\ tag \notin {"head", "body", "/html"}
    THEN Open(ps, "body")
    ELSE ps

\* HTMLParser.add_tag after implicit_tags
add_tag_to(ps, tag) ==
    IF tag \in {"/p", "/body", "/html"}
    THEN (IF Len(ps.unfinished) = 1 THEN ps ELSE Close(ps))
    ELSE IF tag = "br" THEN Leaf(ps, tag)
    ELSE Open(ps, tag)

\* HTMLParser.add_tag / add_text
add_token(ps, tag) ==
    IF tag = "#text" THEN Leaf(implicit_tags(ps, "#none"), tag)
    ELSE add_tag_to(implicit_tags(ps, tag), tag)

RECURSIVE CloseAll(_)
\* HTMLParser.finish, lines 91-94
CloseAll(ps) == IF Len(ps.unfinished) > 1 THEN CloseAll(Close(ps)) ELSE ps

\* HTMLParser.finish: the parser with the root as its only open element
finish(ps) ==
    CloseAll(IF ps.unfinished = <<>> THEN implicit_tags(ps, "#none") ELSE ps)

RECURSIVE add_tokens(_, _)
\* HTMLParser.parse: the tokens in order
add_tokens(ps, tokens) ==
    IF tokens = <<>> THEN ps ELSE add_tokens(add_token(ps, Head(tokens)), Tail(tokens))

\* HTMLParser(body).parse() over the nodes built so far; the root is the
\* element left in unfinished
ParseTokens(nodes, tokens) == finish(add_tokens(NewParser(nodes), tokens))

\* a Frame before load: no node, no handle
NewDom ==
    [nodes |-> <<>>,
     root |-> NoNode,           \* Frame.nodes
     handles |-> {},            \* the nodes of JSContext.handle_to_node
     sets |-> 0]

\* the children of <body> in the document innerHTML_set parses:
\* doc.children[0].children
NewNodes(parsed) ==
    parsed.nodes[parsed.nodes[parsed.unfinished[1]].children[1]].children

InSeq(x, q) == \E i \in DOMAIN q : q[i] = x

\* JSContext.innerHTML_set, lines 175-180: the element gets the parsed
\* children, and each of them the element as parent
SetChildren(parsed, elt) ==
    [n \in DOMAIN parsed.nodes |->
        IF n = elt THEN [parsed.nodes[n] EXCEPT !.children = NewNodes(parsed)]
        ELSE IF InSeq(n, NewNodes(parsed)) THEN [parsed.nodes[n] EXCEPT !.parent = elt]
        ELSE parsed.nodes[n]]

\* JSContext.innerHTML_set
innerHTML_set_value(d, elt, value) ==
    [d EXCEPT !.nodes = SetChildren(ParseTokens(d.nodes,
                                        <<"html", "body">> \o value \o <<"/body", "/html">>),
                                    elt),
              !.sets = @ + 1]

RECURSIVE Descendants(_, _, _)
\* tree_to_list: the nodes of the tree under n (depth bounds the descent)
Descendants(nodes, n, depth) ==
    IF depth = 0 THEN {n}
    ELSE {n} \cup UNION {Descendants(nodes, nodes[n].children[i], depth - 1) :
                            i \in DOMAIN nodes[n].children}

-----------------------------------------------------------------------------
(* Layout: DocumentLayout, BlockLayout, LineLayout, TextLayout *)

MaxWords == 2       \* words and <br> of a paragraph
MaxBlocks == 2      \* children of <body>
MaxRenders == 1     \* renders after the first, each after an innerHTML_set

HSTEP == 13

\* the fonts get_font returns, and their metrics in pixels
Fonts == {"small", "big"}
Ascent(f) == IF f = "small" THEN 8 ELSE 16
Descent(f) == IF f = "small" THEN 4 ELSE 8
Linespace(f) == Ascent(f) + Descent(f)
Space(f) == IF f = "small" THEN 5 ELSE 10

\* the words of the texts (font.measure of each) and <br>
Br == [word |-> "<br>", width |-> 0, font |-> "small"]
Words == {[word |-> "w", width |-> 300, font |-> "small"],
          [word |-> "W", width |-> 500, font |-> "big"]}

\* DOM nodes as layout sees them: an element whose children are inline
\* (items: the words and <br> under it) or block-level (children)
InlineNodes ==
    {[children |-> <<>>, items |-> q] :
        q \in UNION {[1..n -> Words \cup {Br}] : n \in 1..MaxWords}}
InnerNodes ==
    InlineNodes \cup {[children |-> <<>>, items |-> <<>>]}
       \cup {[children |-> <<c>>, items |-> <<>>] : c \in InlineNodes}
Documents ==
    {[children |-> q, items |-> <<>>] :
        q \in UNION {[1..n -> InnerNodes] : n \in 1..MaxBlocks}}

NoBox == [kind |-> "none", x |-> 0, y |-> 0, width |-> 0, height |-> 0, children |-> <<>>]

\* a sibling laid out over its previous sibling
AtPrevious(previous) == previous.y

\* BlockLayout.layout, line 54, and LineLayout.layout, line 18:
\* previous.y + previous.height
BelowPrevious(previous) == previous.y + previous.height

\* TextLayout.__init__ and TextLayout.layout: x, width and height of a word;
\* y is set by the line
TextLayout(item, x) ==
    [kind |-> "text", x |-> x, y |-> 0, width |-> item.width,
     height |-> Linespace(item.font), font |-> item.font, children |-> <<>>]

\* BlockLayout.word: the word goes on the last line, or on a new line when it
\* would pass the end of the line
word(lines, item, x, width) ==
    IF (IF Last(lines) = <<>> THEN x + item.width
        ELSE Last(Last(lines)).x + Last(Last(lines)).width + Space(item.font) + item.width)
          > x + width
    THEN Append(lines, <<TextLayout(item, x)>>)
    ELSE [lines EXCEPT ![Len(lines)] =
            Append(@, TextLayout(item, IF @ = <<>> THEN x
                                       ELSE Last(@).x + Last(@).width + Space(item.font)))]

RECURSIVE recurse(_, _, _, _)
\* BlockLayout.recurse: <br> starts a line, a word is placed
recurse(items, lines, x, width) ==
    IF items = <<>> THEN lines
    ELSE IF Head(items) = Br THEN recurse(Tail(items), Append(lines, <<>>), x, width)
    ELSE recurse(Tail(items), word(lines, Head(items), x, width), x, width)

RECURSIVE MaxOf(_)
MaxOf(q) == IF Len(q) = 1 THEN q[1] ELSE Max(Head(q), MaxOf(Tail(q)))

\* LineLayout.layout: the words on the baseline, the height of the line
\* (1.25 times the metrics, exact for the metrics above; an empty line has
\* 1.25 times the default linespace)
LineLayout_layout(words, x, y, width) ==
    IF words = <<>>
    THEN [kind |-> "line", x |-> x, y |-> y, width |-> width,
          height |-> (5 * Linespace("small")) \div 4, children |-> <<>>]
    ELSE [kind |-> "line", x |-> x, y |-> y, width |-> width,
          height |-> (5 * (MaxOf([i \in DOMAIN words |-> Ascent(words[i].font)])
                           + MaxOf([i \in DOMAIN words |-> Descent(words[i].font)]))) \div 4,
          children |-> [i \in DOMAIN words |->
                          [words[i] EXCEPT !.y =
                              y + (5 * MaxOf([j \in DOMAIN words |-> Ascent(words[j].font)])) \div 4
                                - Ascent(words[i].font)]]]

RECURSIVE LayoutLines(_, _, _, _, _)
\* BlockLayout.layout, lines 82-83: the lines are laid out in order
LayoutLines(lines, done, x, y, width) ==
    IF Len(done) = Len(lines) THEN done
    ELSE LayoutLines(lines,
                     Append(done,
                            LineLayout_layout(lines[Len(done) + 1], x,
                                              IF done = <<>> THEN y
                                              ELSE BelowPrevious(Last(done)),
                                              width)),
                     x, y, width)

RECURSIVE SumHeights(_)
SumHeights(q) == IF q = <<>> THEN 0 ELSE Head(q).height + SumHeights(Tail(q))

\* BlockLayout.layout, lines 70 and 84: the height is the sum of the
\* children's heights
BlockBox(x, y, width, children) ==
    [kind |-> "block", x |-> x, y |-> y, width |-> width,
     height |-> SumHeights(children), children |-> children]

RECURSIVE BlockLayout_layout(_, _, _, _)
RECURSIVE LayoutBlocks(_, _, _, _, _)
\* BlockLayout.layout: inline mode builds and lays out lines, block mode a
\* BlockLayout per child
BlockLayout_layout(node, x, y, width) ==
    IF node.items # <<>>
    THEN BlockBox(x, y, width,
                  LayoutLines(recurse(node.items, <<<<>>>>, x, width), <<>>, x, y, width))
    ELSE BlockBox(x, y, width, LayoutBlocks(node.children, <<>>, x, y, width))

\* BlockLayout.layout, lines 60-67: the children are laid out in order
LayoutBlocks(children, done, x, y, width) ==
    IF Len(done) = Len(children) THEN done
    ELSE LayoutBlocks(children,
                      Append(done,
                             BlockLayout_layout(children[Len(done) + 1], x,
                                                IF done = <<>> THEN y
                                                ELSE BelowPrevious(Last(done)),
                                                width)),
                      x, y, width)

\* DocumentLayout.layout around its one BlockLayout
DocumentBox(child, width) ==
    [kind |-> "document", x |-> HSTEP, y |-> VSTEP, width |-> width - 2 * HSTEP,
     height |-> child.height, children |-> <<child>>]

\* DocumentLayout.layout
DocumentLayout_layout(nodes, width) ==
    DocumentBox(BlockLayout_layout(nodes, HSTEP, VSTEP, width - 2 * HSTEP), width)

\* a Frame whose document is parsed and not yet laid out
ParsedFrames ==
    {[pc |-> "parsed", nodes |-> n, width |-> WIDTH, document |-> NoBox, renders |-> 0] :
        n \in Documents}

\* a Frame without a document
NewBoxes ==
    [pc |-> "none", nodes |-> [children |-> <<>>, items |-> <<>>], width |-> 0,
     document |-> NoBox, renders |-> 0]

-----------------------------------------------------------------------------
(* CompositorThread: surfaces, texture and dirty flags *)

MaxSubmits == 3         \* packets Browser submits to the compositor
MaxWindowResizes == 1   \* SDL_WINDOWEVENT_RESIZED events

ChromeBottom == 100     \* Chrome.bottom, the tab_height Browser.new_tab passes

\* the window as created, and the size a resize gives it
WindowSize == [width |-> WIDTH, height |-> HEIGHT]
ResizedTo == [width |-> WIDTH \div 2, height |-> HEIGHT \div 2]

\* document_height of the commits: a short and a tall document
DocHeights == {2 * VSTEP, 900}

\* what a surface shows: the display list (the number of the commit it came
\* with) and the chrome commands (the number of the chrome change) drawn on
\* it; 0 is white
Blank == [tab |-> 0, chrome |-> 0]
\* what a destroyed texture puts on the screen
GarbagePixels == [tab |-> 0 - 1, chrome |-> 0 - 1]

\* root_surface, chrome_surface, tab_surface are None
NoSurface == [id |-> 0, by |-> "none", height |-> 0, content |-> Blank]
\* skia.Surface(width, height), created by a thread
Surface(id, by, height) == [id |-> id, by |-> by, height |-> height, content |-> Blank]

\* sdl_texture is None
NoTexture == [id |-> 0, by |-> "none", alive |-> FALSE]

\* current_data is None
NoData ==
    [display_list |-> 0, document_height |-> 0, chrome_commands |-> 0,
     chrome_height |-> 0, size |-> WindowSize,
     chrome_changed |-> FALSE, tab_changed |-> FALSE]

\* Browser.__init__, lines 62-67, with active_commit None
NewBrowser ==
    [pc |-> "events",
     size |-> WindowSize,
     chrome_needs_raster |-> TRUE,
     tab_needs_raster |-> TRUE,
     active_commit |-> [display_list |-> 0, document_height |-> 0],
     chrome |-> 1,          \* the number of the chrome's last change
     submits |-> 0,
     resizes |-> 0]

\* CompositorThread.__init__ and _init_surfaces
NewCompositorThread ==
    [pc |-> "queue",
     running |-> TRUE,
     size |-> WindowSize,
     root_surface |-> Surface(1, "compositor", HEIGHT),
     chrome_surface |-> NoSurface,
     tab_surface |-> NoSurface,
     sdl_texture |-> [id |-> 1, by |-> "compositor", alive |-> TRUE],
     next_id |-> 2,
     chrome_needs_raster |-> TRUE,
     tab_needs_raster |-> TRUE,
     current_data |-> NoData,
     frame_root |-> 0,      \* root_surface and sdl_texture when the frame began
     frame_texture |-> 0,
     frames |-> 0]

NewGpu ==
    [browser |-> NewBrowser,
     data_queue |-> <<>>,
     compositor |-> NewCompositorThread,
     screen |-> Blank]

\* Browser.submit_to_compositor with the dirty flags: the packet carries
\* active_commit, the chrome and the flags, and the flags are cleared
SubmitPacket(g) ==
    [g EXCEPT
        !.data_queue = Append(@,
            [display_list |-> g.browser.active_commit.display_list,
             document_height |-> g.browser.active_commit.document_height,
             chrome_commands |-> g.browser.chrome,
             chrome_height |-> ChromeBottom,
             size |-> g.browser.size,
             chrome_changed |-> g.browser.chrome_needs_raster,
             tab_changed |-> g.browser.tab_needs_raster]),
        !.browser.chrome_needs_raster = FALSE,
        !.browser.tab_needs_raster = FALSE,
        !.browser.submits = @ + 1]

\* CompositorThread._resize_surfaces, run by a thread: a new root surface and
\* a new texture for the destroyed one
ResizeSurfaces(c, by) ==
    [c EXCEPT !.root_surface = Surface(c.next_id, by, c.size.height),
              !.sdl_texture = [id |-> c.next_id, by |-> by, alive |-> TRUE],
              !.next_id = @ + 1,
              !.chrome_needs_raster = TRUE,
              !.tab_needs_raster = TRUE]

\* _apply_data, lines 141-145
ApplySize(c, data) ==
    IF data.size # c.size
    THEN ResizeSurfaces([c EXCEPT !.size = data.size], "compositor")
    ELSE c

\* CompositorThread._ensure_chrome_surface
ensure_chrome_surface(c, height) ==
    IF c.chrome_surface = NoSurface \/ c.chrome_surface.height # Max(1, height)
    THEN [c EXCEPT !.chrome_surface = Surface(1, "compositor", Max(1, height)),
                   !.chrome_needs_raster = TRUE]
    ELSE c

\* CompositorThread._ensure_tab_surface: the viewport height comes from the
\* packet applied before this one
ensure_tab_surface(c, document_height) ==
    IF \/ c.tab_surface = NoSurface
       \/ c.tab_surface.height
             # Max(Max(document_height, c.size.height - c.current_data.chrome_height), 1)
    THEN [c EXCEPT
            !.tab_surface =
                Surface(1, "compositor",
                        Max(Max(document_height,
                                c.size.height - c.current_data.chrome_height), 1)),
            !.tab_needs_raster = TRUE]
    ELSE c

\* _apply_data, lines 147-151
ApplyChrome(c, data) ==
    IF ~data.chrome_changed THEN c
    ELSE IF data.chrome_height > 0
    THEN ensure_chrome_surface([c EXCEPT !.chrome_needs_raster = TRUE], data.chrome_height)
    ELSE [c EXCEPT !.chrome_needs_raster = TRUE]

\* _apply_data, lines 153-157
ApplyTab(c, data) ==
    IF ~data.tab_changed THEN c
    ELSE IF data.document_height > 0
    THEN ensure_tab_surface([c EXCEPT !.tab_needs_raster = TRUE], data.document_height)
    ELSE [c EXCEPT !.tab_needs_raster = TRUE]

\* CompositorThread._apply_data
apply_data(c, data) ==
    [ApplyTab(ApplyChrome(ApplySize(c, data), data), data) EXCEPT !.current_data = data]

\* CompositorThread._process_data_queue: the newest packet of the queue is
\* applied, the older ones are skipped
process_data_queue(c, queue) ==
    IF queue = <<>> THEN c ELSE apply_data(c, Last(queue))

-----------------------------------------------------------------------------
(* The connection pool: HTTPBase._socket_map under one https key *)

MaxPoolRequests == 3    \* calls of HTTPSURL.request that miss the cache

\* sockets are numbered as they are created; a request creates at most two
SocketIds == 1..(2 * MaxPoolRequests)
NoSock == 0             \* _socket_map has no socket for the key, s is None

\* socket.socket(...) of _open_socket: plain TCP, not yet used. wire is the
\* requests the server has received and not yet answered, in order; tls
\* whether ctx.wrap_socket wrapped it; closed is s.close() on this side,
\* peer_closed the server closing the connection; plain_sent whether a
\* request went out unencrypted
NewSocket ==
    [made |-> FALSE, tls |-> FALSE, closed |-> FALSE, peer_closed |-> FALSE,
     wire |-> <<>>, plain_sent |-> FALSE]

\* a thread outside HTTPSURL.request
IdleRequest ==
    [pc |-> "idle", s |-> NoSock, outer |-> NoSock, sends |-> 0, got |-> NoThread,
     handed_closed |-> FALSE, raised |-> FALSE]

NewPool ==
    [socket_map |-> NoSock,
     socks |-> [i \in SocketIds |-> NewSocket],
     next |-> 1,
     requests |-> 0,
     thread |-> [t \in Workers |-> IdleRequest]]

\* HTTPBase._get_socket: the socket of the key, or None when there is none
\* or its fileno() is -1 (and the entry is then dropped)
get_socket(p) ==
    IF p.socket_map # NoSock /\ p.socks[p.socket_map].closed THEN NoSock
    ELSE p.socket_map

\* _open_socket and connect: the next socket, connected
open_socket(p, wrapped) ==
    [p EXCEPT !.socks[p.next] = [NewSocket EXCEPT !.made = TRUE, !.tls = wrapped],
              !.next = @ + 1]

\* _send_http_request on an open socket: s.send; a server that has closed the
\* connection, or a TLS server that is sent plain text, receives no request
send_http_request(p, t, id) ==
    [p EXCEPT !.socks[id].wire =
                  IF p.socks[id].peer_closed \/ ~p.socks[id].tls THEN @ ELSE Append(@, t),
              !.socks[id].plain_sent = @ \/ ~p.socks[id].tls,
              !.thread[t].sends = @ + 1]

\* s.close() and _remove_socket()
close_and_remove(p, id) ==
    [p EXCEPT !.socks[id].closed = TRUE, !.socket_map = NoSock]

\* the request ends in an exception
Raise(p, t) == [p EXCEPT !.thread[t].pc = "done", !.thread[t].raised = TRUE]
-----------------------------------------------------------------------------
(* Tab.click on the elements of a document *)

MaxElts == 3        \* elements under <body>
MaxClicks == 2      \* CLICK events handled

\* the tags Tab.click tells apart; an <a> has an href, a <form> an action,
\* and "div" stands for every other element
ClickTags == {"a", "input", "button", "form", "div"}

NoElt == 0          \* elt is None: the parent of <html>; tab.focus is None

\* the documents: element i has a tag and a parent among the elements before
\* it (NoElt: it is a child of <body>)
ClickDocs ==
    UNION {[1..n -> ClickTags \X (0..(MaxElts - 1))] : n \in 1..MaxElts}
WellFormed(doc) == \A i \in DOMAIN doc : doc[i][2] < i
TagOf(doc, e) == doc[e][1]
ParentOf(doc, e) == doc[e][2]

\* Tab.__init__ and the first Tab.load of a document: no element has
\* is_focus, tab.focus is None. gen numbers the documents loaded; is_focus
\* is the elements of the current document whose flag is set; loads counts
\* the calls of Tab.load in the last click
ClickStart(doc) ==
    [pc |-> "loaded", doc |-> doc, gen |-> 1, is_focus |-> {},
     focus |-> [gen |-> 0, elt |-> NoElt],
     loads |-> 0, clicks |-> 0, raised |-> FALSE]

NewClk == [ClickStart(<<>>) EXCEPT !.pc = "none"]

\* Tab.load: a new root Frame with a newly parsed document; tab.focus is
\* kept
ClickLoad(c) ==
    [c EXCEPT !.gen = @ + 1, !.is_focus = {}, !.loads = @ + 1]

\* Frame.dispatch_event: do_default is False when a listener of the page
\* prevents it; an element of a document that was replaced has no listener
Prevented(c, prevent) == prevent /\ c.loads = 0

RECURSIVE SubmitWalk(_, _, _)
\* Tab.click, lines 207-210, and Tab.submit_form: the nearest <form action>
\* is submitted; without one elt ends as None and line 212 raises
SubmitWalk(c, e, prevent) ==
    IF e = NoElt THEN [c EXCEPT !.raised = TRUE]
    ELSE IF TagOf(c.doc, e) = "form"
         THEN (IF Prevented(c, prevent) THEN c ELSE ClickLoad(c))
         ELSE SubmitWalk(c, ParentOf(c.doc, e), prevent)

\* Tab.click, lines 197-203: the flag of the element tab.focus refers to is
\* cleared, the clicked input gets the flag and the focus
FocusInput(c, e) ==
    [c EXCEPT !.is_focus = (IF c.focus.elt # NoElt /\ c.focus.gen = c.gen
                            THEN @ \ {c.focus.elt} ELSE @) \cup {e},
              !.focus = [gen |-> c.gen, elt |-> e]]

RECURSIVE ClickWalk(_, _, _)
\* Tab.click, lines 186-212: the walk from the hit element to the root
ClickWalk(c, e, prevent) ==
    IF e = NoElt THEN c
    ELSE IF TagOf(c.doc, e) = "a"
         THEN (IF Prevented(c, prevent) THEN c
               ELSE ClickWalk(ClickLoad(c), ParentOf(c.doc, e), prevent))
    ELSE IF TagOf(c.doc, e) = "input"
         THEN (IF Prevented(c, prevent) THEN c ELSE FocusInput(c, e))
    ELSE IF TagOf(c.doc, e) = "button"
         THEN (IF Prevented(c, prevent) THEN c ELSE SubmitWalk(c, e, prevent))
    ELSE ClickWalk(c, ParentOf(c.doc, e), prevent)

\* Tab.click: line 170 sets tab.focus to None, then the walk from the
\* element the hit test found
Tab_click(c, e, prevent) ==
    ClickWalk([c EXCEPT !.focus = [gen |-> 0, elt |-> NoElt],
                        !.loads = 0, !.clicks = @ + 1],
              e, prevent)
-----------------------------------------------------------------------------
(* The frame tree of a tab: Tab.frames, Frame.child_frames, display lists *)

MaxTreeReloads == 1     \* setLocationHref calls on a frame of the tab

\* the pages of a site and the pages their <iframe src> elements name: the
\* root page embeds up to two frames, a "mid" page at most a "leaf" page
TreePages == {"root", "mid", "leaf"}
TreeSites ==
    {[p \in TreePages |-> CASE p = "root" -> r [] p = "mid" -> m [] OTHER -> <<>>] :
        r \in UNION {[1..n -> {"mid", "leaf"}] : n \in 0..2},
        m \in {<<>>, <<"leaf">>}}

\* a load of the root page builds at most 5 frames, a reload as many again
TreeFrameIds == 1..(5 * (MaxTreeReloads + 1))
NoTreeFrame == 0        \* parent_frame is None

\* Frame.__init__
TreeFrame(parent_frame) ==
    [made |-> TRUE, page |-> "none", parent_frame |-> parent_frame,
     child_frames |-> <<>>, display_list |-> <<>>]

\* Tab.__init__: no root frame, no frames
NewTree ==
    [pc |-> "none",
     site |-> [p \in TreePages |-> <<>>],
     frame |-> [f \in TreeFrameIds |-> [TreeFrame(NoTreeFrame) EXCEPT !.made = FALSE]],
     frames |-> <<>>,
     root_frame |-> NoTreeFrame,
     next |-> 1,
     display_list |-> <<>>,
     composited |-> FALSE,
     reloads |-> 0]

RECURSIVE Without(_, _)
\* list.remove(x) on a list that holds x at most once
Without(q, x) ==
    IF q = <<>> THEN <<>>
    ELSE IF Head(q) = x THEN Tail(q)
    ELSE <<Head(q)>> \o Without(Tail(q), x)

RECURSIVE RemoveFrames(_, _)
\* Frame._load_iframes, lines 219-220: Tab.remove_frame for each child frame
RemoveFrames(fs, children) ==
    IF children = <<>> THEN fs
    ELSE RemoveFrames(Without(fs, Head(children)), Tail(children))

\* Frame.load up to Frame.render: the page and the frame's own display list
\* (the commands of frame f are written f)
RenderFrame(st, f, pg) ==
    [st EXCEPT !.frame[f].page = pg, !.frame[f].display_list = <<f>>]

\* Frame._load_iframes, lines 218-221
DropChildren(st, f) ==
    [st EXCEPT !.frames = RemoveFrames(@, st.frame[f].child_frames),
               !.frame[f].child_frames = <<>>]

\* Frame._load_iframes, lines 244-248: the child Frame is built
CreateChild(st, f) ==
    [st EXCEPT !.frame[st.next] = TreeFrame(f), !.next = @ + 1]

\* Frame._load_iframes, lines 257-258: the loaded child is appended to
\* child_frames and to Tab.frames
AddChild(st, f, child) ==
    [st EXCEPT !.frame[f].child_frames = Append(@, child),
               !.frames = Append(@, child)]

RECURSIVE Frame_load(_, _, _)
RECURSIVE load_iframes(_, _, _)
\* Frame.load: render, then _load_iframes
Frame_load(st, f, pg) ==
    load_iframes(DropChildren(RenderFrame(st, f, pg), f), f, st.site[pg])

\* Frame._load_iframes, lines 229-267: for each <iframe src> a child frame
\* is built and loaded, and then added
load_iframes(st, f, srcs) ==
    IF srcs = <<>> THEN st
    ELSE load_iframes(AddChild(Frame_load(CreateChild(st, f), st.next, Head(srcs)),
                               f, st.next),
                      f, Tail(srcs))

RECURSIVE get_display_list(_, _)
RECURSIVE ChildLists(_, _)
\* Frame.get_display_list: the frame's commands, then those of its child
\* frames
get_display_list(st, f) ==
    st.frame[f].display_list \o ChildLists(st, st.frame[f].child_frames)

ChildLists(st, children) ==
    IF children = <<>> THEN <<>>
    ELSE get_display_list(st, Head(children)) \o ChildLists(st, Tail(children))

\* Tab._composite_display_list: get_display_list of every frame of
\* Tab.frames, in order
composite_display_list(st) ==
    [st EXCEPT !.display_list = ChildLists(st, st.frames), !.composited = TRUE]

\* Tab.load, lines 116-123
Tab_load_tree(st, site) ==
    composite_display_list(
        Frame_load([st EXCEPT !.pc = "loaded", !.site = site,
                              !.frame[st.next] = TreeFrame(NoTreeFrame),
                              !.frames = <<st.next>>,
                              !.root_frame = st.next,
                              !.next = @ + 1],
                   st.next, "root"))
-----------------------------------------------------------------------------
(* Keyboard focus: Browser.focus, Chrome.focus and where keys are delivered *)

MaxKbdTabs == 2         \* tabs opened with the new-tab button
MaxKbdInputs == 5       \* SDL events handled by the browser thread

\* the texts of SDL_TEXTINPUT events, as code points: "a", "ab", and a
\* control character
KbdTexts == {<<97>>, <<97, 98>>, <<9>>}

\* what Chrome.click hits, in the order of its tests; "blank" is a point of
\* the chrome that is in no rectangle
ChromeRegions == {"newtab", "back", "address", "tab", "blank"}

NoKbdTab == 0           \* active_tab is None

\* Browser.__init__ and Chrome.__init__
NewKbd ==
    [focus |-> "none", chrome_focus |-> "none", address_bar |-> <<>>,
     tabs |-> 0, active_tab |-> NoKbdTab, posted |-> <<>>, inputs |-> 0,
     last |-> [op |-> "none", chars |-> 0, to_bar |-> 0, to_tab |-> 0]]

\* MainThread.post_event on _get_active_main_thread(), when there is one
post_to_active(k, type, char) ==
    IF k.active_tab = NoKbdTab THEN k
    ELSE [k EXCEPT !.posted = Append(@, [tab |-> k.active_tab, type |-> type,
                                          char |-> char])]

\* Browser.new_tab
new_tab(k) ==
    [k EXCEPT !.tabs = @ + 1, !.active_tab = k.tabs + 1,
              !.posted = Append(@, [tab |-> k.tabs + 1, type |-> "LOAD", char |-> 0])]

\* Chrome.click: rect is the rectangle hit, i the tab of a tab rectangle
chrome_click(k, rect, i) ==
    CASE rect = "newtab" -> new_tab(k)
      [] rect = "back" -> post_to_active(k, "GO_BACK", 0)
      [] rect = "address" -> [k EXCEPT !.chrome_focus = "address bar",
                                       !.address_bar = <<>>]
      [] rect = "tab" -> [k EXCEPT !.active_tab = i]
      [] OTHER -> k

chrome_stays(k) == k

\* Chrome.blur
chrome_blur(k) == [k EXCEPT !.chrome_focus = "none"]

\* Browser.handle_click, the branch of a click above chrome.bottom
click_chrome(k, rect, i) == chrome_click([k EXCEPT !.focus = "none"], rect, i)

\* Browser.handle_click, the branch of a click on the content
click_content(k) ==
    post_to_active(chrome_blur([k EXCEPT !.focus = "content"]), "CLICK", 0)

\* the test of Browser.handle_text_input on a character
Printable(c) == 32 <= c /\ c < 127

\* Browser.handle_text_input for one character, with Chrome.keypress
text_char(k, c) ==
    IF ~Printable(c) THEN k
    ELSE IF k.chrome_focus = "address bar"
         THEN [k EXCEPT !.address_bar = Append(@, c)]
    ELSE IF k.focus = "content" THEN post_to_active(k, "KEYPRESS", c)
    ELSE k

RECURSIVE handle_text_input(_, _)
\* Browser.handle_text_input: the characters of the text in order
handle_text_input(k, text) ==
    IF text = <<>> THEN k
    ELSE handle_text_input(text_char(k, Head(text)), Tail(text))

\* Browser.handle_backspace, with Chrome.backspace
handle_backspace(k) ==
    IF k.chrome_focus = "address bar" /\ Len(k.address_bar) > 0
    THEN [k EXCEPT !.address_bar = SubSeq(@, 1, Len(@) - 1)]
    ELSE IF k.focus = "content" THEN post_to_active(k, "BACKSPACE", 0)
    ELSE k

\* Browser.handle_return, with Chrome.enter and Browser.handle_load: the
\* address typed is not kept in the event
handle_return(k) ==
    IF k.chrome_focus = "address bar"
    THEN post_to_active([k EXCEPT !.chrome_focus = "none"], "LOAD", 0)
    ELSE k

\* one more SDL event handled: what it changed in the address bar and
\* what it posted to main threads
KbdHandled(old, new, op, chars) ==
    [new EXCEPT !.inputs = @ + 1,
                !.last = [op |-> op, chars |-> chars,
                          to_bar |-> IF Len(new.address_bar) >= Len(old.address_bar)
                                     THEN Len(new.address_bar) - Len(old.address_bar)
                                     ELSE Len(old.address_bar) - Len(new.address_bar),
                          to_tab |-> Len(new.posted) - Len(old.posted)]]

-----------------------------------------------------------------------------
\* the frames, the DOM, the layout tree and the compositor as constructed
PageConstructed ==
    /\ page = NewPage
    /\ frames = NewFrames
    /\ ids = NewIds
    /\ dom = NewDom
    /\ boxes = NewBoxes
    /\ gpu = NewGpu
    /\ pool = NewPool
    /\ clk = NewClk
    /\ tree = NewTree
    /\ kbd = NewKbd

-----------------------------------------------------------------------------
(* MainThread *)

LoadUrls == {AboutBlank, ShortUrl, TallUrl, LoopUrl, NoLocUrl, ToDownUrl,
             DownUrl, Garbage} \cup {HopUrl(k) : k \in Chains}
ScrollValues == {0 - SCROLL_STEP, 0, 10 * SCROLL_STEP}
Sizes == {<<WIDTH \div 2, HEIGHT \div 2>>, <<2 * WIDTH, 5 * HEIGHT>>}

\* the events Browser posts (core/browser.py) 
Events ==
    {[type |-> "LOAD", url |-> u] : u \in LoadUrls}
    \cup {[type |-> "CLICK", target |-> c] : c \in ClickTargets}
    \cup {[type |-> "SCROLL_TO", scroll |-> v] : v \in ScrollValues}
    \cup {[type |-> "RESIZE", width |-> z[1], height |-> z[2]] : z \in Sizes}
    \cup {[type |-> y] : y \in {"KEYPRESS", "BACKSPACE", "SCROLL_DOWN",
                                 "SCROLL_UP", "GO_BACK", "STOP"}}

\* obs: what the last step of the loop did: the event it handled ("Empty" for
\* a timeout, "none" for the other steps), whether the handler called
\* Tab.load, whether the step published a commit or rendered, the number
\* of tasks it ran, and the frame whose timer or XHR callback it ran as
\* JavaScript
NoGen == 0      \* no frame
NoObs == [handled |-> "none", loaded |-> FALSE, committed |-> FALSE,
          rendered |-> FALSE, ran_now |-> 0, callback_gen |-> NoGen]

NoCommit == [display_list |-> NoNodes, document_height |-> 0, scroll |-> 0,
             url |-> "<no commit>"]

\* MainThread._commit / _commit_scroll: the CommitData built from the tab
CommitData(t) ==
    [display_list |-> t.display_list, document_height |-> get_max_y(t),
     scroll |-> t.scroll,
     url |-> IF t.has_frame /\ t.url # NoUrl THEN URL_str(t.url) ELSE "<none>"]

\* MainThread._handle_event: the tab method the event type dispatches to
Dispatch(w, e, js, js2) ==
    IF e.type = "LOAD" THEN TabLoad(w, e.url, NoPayload)
    ELSE IF e.type = "CLICK" THEN click(w, e.target, js, js2)
    ELSE IF e.type = "KEYPRESS" THEN keypress(w, js)
    ELSE IF e.type = "BACKSPACE" THEN backspace(w)
    ELSE IF e.type = "SCROLL_DOWN" THEN [w EXCEPT !.tab = scrolldown(w.tab)]
    ELSE IF e.type = "SCROLL_UP" THEN [w EXCEPT !.tab = scollup(w.tab)]
    ELSE IF e.type = "SCROLL_TO" THEN [w EXCEPT !.tab = scroll_to(w.tab, e.scroll)]
    ELSE IF e.type = "RESIZE" THEN [w EXCEPT !.tab = resize(w.tab, e.width, e.height)]
    ELSE IF e.type = "GO_BACK" THEN go_back(w)
    ELSE w

\* MainThread._handle_event: whether the branch renders before committing
RendersAfter(type, t) ==
    type \in {"CLICK", "KEYPRESS", "BACKSPACE"} /\ t.needs_render

\* MainThread._handle_event: whether the branch commits
CommitsAfter(type, t) ==
    \/ type \in {"LOAD", "CLICK", "GO_BACK", "SCROLL_DOWN", "SCROLL_UP", "SCROLL_TO"}
    \/ type \in {"KEYPRESS", "BACKSPACE"} /\ t.needs_render

PopTaskNewest(q) == [task |-> q[Len(q)], rest |-> SubSeq(q, 1, Len(q) - 1)]

\* TaskRunner.run: the task taken from the queue
PopTask(q) == [task |-> Head(q), rest |-> Tail(q)]

\* what a task's JavaScript does: nothing, innerHTML_set, or raise
TaskEffects == {"none", "innerHTML", "throw"}

\* JSContext.innerHTML_set from a task of frame generation gen
innerHTML_set(t, gen) ==
    IF gen = t.gen /\ t.nodes \in {"short", "tall"}
    THEN [t EXCEPT !.nodes = IF @ = "short" THEN "tall" ELSE "short",
                   !.frame_needs_render = TRUE, !.needs_render = TRUE]
    ELSE [t EXCEPT !.needs_render = TRUE]

\* JSContext.run: once a frame's script has run, the frame has listeners,
\* timers and XHRs
MarkScripted(t, task) ==
    IF task.kind = "script" THEN [t EXCEPT !.scripted = @ \cup {task.gen}] ELSE t

\* Task.run: JSContext.run catches what the script throws,
\* dispatch_setTimeout and dispatch_xhr_onload do not
TaskRaises(task, effect) == effect = "throw" /\ task.kind # "script"

\* JSContext.dispatch_setTimeout / dispatch_xhr_onload, lines 184 and 216:
\* a discarded context returns before evaljs
Suppressed(t, task) == task.kind \in {"timer", "xhr"} /\ task.gen \in t.discarded

\* the outcomes the dispatches of one event can have: only CLICK and KEYPRESS
\* dispatch, and only a button click dispatches "submit" as well
DispatchOutcomes(t, e) ==
    IF e.type \in {"CLICK", "KEYPRESS"} /\ t.gen \in t.scripted
    THEN JsOutcomes ELSE {"default"}
SubmitOutcomes(t, e) ==
    IF e.type = "CLICK" /\ e.target = "button" /\ t.gen \in t.scripted
    THEN JsOutcomes ELSE {"default"}

Init ==
    /\ event_queue \in {<<[type |-> "LOAD", url |-> u]>> : u \in LoadUrls}
    /\ running = TRUE
    /\ pc = "event"
    /\ tab = NewTab(ChromeBottom)
    /\ tasks = <<>>
    /\ commit = NoCommit
    /\ obs = NoObs
    /\ ran = <<>>
    /\ posted = 1
    /\ scheduled = 0
    /\ last_load = NoLoad
    /\ net = NewNetworkThread
    /\ client = NewClient
    /\ ui = NewUi
    /\ sheets = NewSheets
    /\ PageConstructed

\* Browser thread: MainThread.post_event (an event posted to a thread that
\* has ended is never taken from the queue and is left out)
PostEvent ==
    /\ pc \notin {"done", "crashed"}
    /\ posted < MaxEvents
    /\ Len(event_queue) < MaxQueue
    /\ \E e \in Events : event_queue' = Append(event_queue, e)
    /\ posted' = posted + 1
    /\ UNCHANGED <<running, pc, tab, tasks, commit, obs, ran, scheduled, last_load, net, sidevars>>

\* A timer thread (JSContext.setTimeout) or an XHR thread
\* (JSContext.XMLHttpRequest_send) of a frame whose script has run:
\* TaskRunner.schedule_task
ScheduleTask ==
    /\ pc \notin {"done", "crashed"}
    /\ scheduled < MaxTasks
    /\ \E k \in {"timer", "xhr"}, g \in tab.scripted :
          tasks' = Append(tasks, [id |-> scheduled + 1, kind |-> k, gen |-> g])
    /\ scheduled' = scheduled + 1
    /\ UNCHANGED <<event_queue, running, pc, tab, commit, obs, ran, posted, last_load, net, sidevars>>

\* MainThread.run, lines 68-73: the queue is empty for the whole timeout
EventTimeout ==
    /\ pc = "event"
    /\ event_queue = <<>>
    /\ pc' = "task"
    /\ obs' = [NoObs EXCEPT !.handled = "Empty"]
    /\ UNCHANGED <<event_queue, running, tab, tasks, commit, ran, posted, scheduled, last_load, net, sidevars>>

\* MainThread._handle_event after the tab method returned the world w:
\* the render and the commit of the event's branch
Handled(e, w) ==
    /\ event_queue' = Tail(event_queue)
    /\ running' = IF e.type = "STOP" THEN FALSE ELSE running
    /\ tasks' = w.tasks
    /\ scheduled' = w.scheduled
    /\ last_load' = w.load
    /\ IF w.raised
       THEN /\ pc' = "crashed"
            /\ tab' = w.tab
            /\ commit' = commit
            /\ obs' = [handled |-> e.type, loaded |-> w.loaded, committed |-> FALSE,
                       rendered |-> FALSE, ran_now |-> 0, callback_gen |-> NoGen]
       ELSE /\ pc' = "task"
            /\ tab' = IF RendersAfter(e.type, w.tab) THEN TabRender(w.tab) ELSE w.tab
            /\ commit' = IF CommitsAfter(e.type, w.tab) THEN CommitData(tab') ELSE commit
            /\ obs' = [handled |-> e.type, loaded |-> w.loaded,
                       committed |-> CommitsAfter(e.type, w.tab),
                       rendered |-> RendersAfter(e.type, w.tab), ran_now |-> 0,
                       callback_gen |-> NoGen]

\* MainThread.run, lines 68-71, with _handle_event
HandleEvent ==
    /\ pc = "event"
    /\ event_queue # <<>>
    /\ \E js \in DispatchOutcomes(tab, Head(event_queue)),
          js2 \in SubmitOutcomes(tab, Head(event_queue)) :
          Handled(Head(event_queue),
                  Dispatch(World(tab, tasks, scheduled, last_load),
                           Head(event_queue), js, js2))
    /\ UNCHANGED <<ran, posted, net, sidevars>>

\* Task.run for the task the runner took, with the effect its JavaScript has
RunPopped(task, rest, effect) ==
    /\ tasks' = rest
    /\ ran' = Append(ran, task.id)
    /\ obs' = [NoObs EXCEPT !.ran_now = 1,
                            !.callback_gen = IF task.kind \in {"timer", "xhr"} /\ ~Suppressed(tab, task)
                                             THEN task.gen ELSE NoGen]
    /\ pc' = IF TaskRaises(task, effect) /\ ~Suppressed(tab, task)
             THEN "crashed" ELSE "render"
    /\ tab' = IF effect = "innerHTML" /\ ~Suppressed(tab, task)
              THEN innerHTML_set(MarkScripted(tab, task), task.gen)
              ELSE MarkScripted(tab, task)

\* MainThread.run, line 76: TaskRunner.run
RunTask ==
    /\ pc = "task"
    /\ IF tasks = <<>>
       THEN /\ pc' = "render"
            /\ obs' = NoObs
            /\ UNCHANGED <<tab, tasks, ran>>
       ELSE \E effect \in TaskEffects :
               RunPopped(PopTask(tasks).task, PopTask(tasks).rest, effect)
    /\ UNCHANGED <<event_queue, running, commit, posted, scheduled, last_load, net, sidevars>>

\* MainThread.run, lines 79-83, and the loop test of line 66
RenderCommit ==
    /\ pc = "render"
    /\ pc' = IF running THEN "event" ELSE "done"
    /\ IF tab.needs_render
       THEN /\ tab' = TabRender(tab)
            /\ commit' = CommitData(tab')
            /\ obs' = [NoObs EXCEPT !.committed = TRUE, !.rendered = TRUE]
       ELSE /\ obs' = NoObs
            /\ UNCHANGED <<tab, commit>>
    /\ UNCHANGED <<event_queue, running, tasks, ran, posted, scheduled, last_load, net, sidevars>>

Next == PostEvent \/ ScheduleTask \/ EventTimeout \/ HandleEvent \/ RunTask \/ RenderCommit

Spec == Init /\ [][Next]_vars

-----------------------------------------------------------------------------
(* NetworkThread, its callers and the threads that run url.request *)

\* the tab after the LOAD of the scripted page and the run of its script
\* task: the state of the main thread while the network is exercised
ScriptedWorld == TabLoad(World(NewTab(ChromeBottom), <<>>, 0, NoLoad), TallUrl, NoPayload)

NetInit ==
    /\ event_queue = <<>>
    /\ running = TRUE
    /\ pc = "event"
    /\ tab = MarkScripted(ScriptedWorld.tab, Head(ScriptedWorld.tasks))
    /\ tasks = Tail(ScriptedWorld.tasks)
    /\ commit = CommitData(ScriptedWorld.tab)
    /\ obs = NoObs
    /\ ran = <<Head(ScriptedWorld.tasks).id>>
    /\ posted = 1
    /\ scheduled = ScriptedWorld.scheduled
    /\ last_load = ScriptedWorld.load
    /\ net = NewNetworkThread
    /\ client = NewClient
    /\ ui = NewUi
    /\ sheets = NewSheets
    /\ PageConstructed

\* a main thread is free to start a request or a synchronous XHR
MainFree(c) ==
    /\ net.caller[c].pc \in {"idle", "returned"}
    /\ c \in XhrSenders => net.fetch[c].pc = "idle"

\* NetworkThread._get_next_request_id, lines 91-92: take _lock, increment the
\* counter (a main thread entering request or request_sync)
GetNextRequestId(c) ==
    /\ net.running
    /\ net.counter < MaxRequests
    /\ MainFree(c)
    /\ net.lock = NoThread
    /\ \E u \in NetUrls, s \in BOOLEAN :
          net' = [net EXCEPT !.lock = c, !.counter = @ + 1,
                             !.caller[c] = [pc |-> "locked",
                                            request |-> [request_id |-> net.counter + 1,
                                                         url |-> u, sync |-> s,
                                                         caller |-> c]]]
    /\ UNCHANGED <<mainvars, sidevars>>

\* NetworkThread._get_next_request_id, line 93: return the id, release _lock
ReleaseLock(c) ==
    /\ net.caller[c].pc = "locked"
    /\ net' = [net EXCEPT !.lock = NoThread, !.caller[c].pc = "have_id"]
    /\ UNCHANGED <<mainvars, sidevars>>

\* NetworkThread.request, lines 169-180: build the request and queue it;
\* request_sync then waits on its event (line 209)
PutRequest(c) ==
    /\ net.caller[c].pc = "have_id"
    /\ net' = [net EXCEPT
                 !.request_queue = Append(@, net.caller[c].request),
                 !.requests[net.caller[c].request.request_id] = net.caller[c].request,
                 !.live = IF net.running THEN @ \cup {net.caller[c].request.request_id} ELSE @,
                 !.caller[c].pc = IF net.caller[c].request.sync THEN "waiting" ELSE "idle"]
    /\ UNCHANGED <<mainvars, sidevars>>

\* NetworkThread._dispatch_loop, lines 99-101: the loop test and a get that
\* returns a request
DispatcherGet ==
    /\ net.dispatcher.pc = "loop"
    /\ net.running
    /\ net.request_queue # <<>>
    /\ net' = [net EXCEPT !.dispatcher = [pc |-> "got", request |-> Head(net.request_queue)],
                          !.request_queue = Tail(@)]
    /\ UNCHANGED <<mainvars, sidevars>>

\* NetworkThread._submit_request: executor.submit raises RuntimeError once
\* the executor is shut down, and _dispatch_loop catches only Empty
DispatcherSubmit ==
    /\ net.dispatcher.pc = "got"
    /\ net' = [net EXCEPT
                 !.pending = @ \cup {net.dispatcher.request.request_id},
                 !.work = IF net.shutdown THEN @ ELSE Append(@, net.dispatcher.request),
                 !.dispatcher = [pc |-> IF net.shutdown THEN "died" ELSE "loop",
                                 request |-> NoRequest]]
    /\ UNCHANGED <<mainvars, sidevars>>

\* NetworkThread._dispatch_loop, line 99: the loop test fails
DispatcherExit ==
    /\ net.dispatcher.pc = "loop"
    /\ ~net.running
    /\ net' = [net EXCEPT !.dispatcher.pc = "ended"]
    /\ UNCHANGED <<mainvars, sidevars>>

\* a worker of the executor takes the next work item and enters
\* _do_request, which calls request.url.request (line 115)
WorkerTake(w) ==
    /\ net.fetch[w].pc = "idle"
    /\ net.work # <<>>
    /\ net' = [net EXCEPT !.work = Tail(@),
                          !.fetch[w] = [pc |-> "cache_get", url |-> Head(net.work).url,
                                        request |-> Head(net.work), raised |-> FALSE]]
    /\ UNCHANGED <<mainvars, sidevars>>

\* JSContext.XMLHttpRequest_send: run_load on the main thread (synchronous)
\* or on a new thread (asynchronous) calls url_obj.request
StartXhr(t) ==
    /\ net.xhrs < MaxXhr
    /\ net.fetch[t].pc = "idle"
    /\ t \in Mains => MainFree(t)
    /\ \E u \in XhrUrls :
          net' = [net EXCEPT !.xhrs = @ + 1,
                             !.fetch[t] = [pc |-> "cache_get", url |-> u,
                                           request |-> NoRequest, raised |-> FALSE]]
    /\ UNCHANGED <<mainvars, sidevars>>

\* HTTPSURL.request, lines 16-18: cache_manager.get; an entry found may have
\* expired, and is then deleted
CacheGet(t) ==
    /\ net.fetch[t].pc = "cache_get"
    /\ \E expired \in (IF net.fetch[t].url \in net.cache THEN BOOLEAN ELSE {TRUE}) :
          net' = [net EXCEPT
                    !.cache = IF expired THEN @ \ {net.fetch[t].url} ELSE @,
                    !.fetch[t].pc = IF expired THEN "socket" ELSE "done"]
    /\ UNCHANGED <<mainvars, sidevars>>

\* HTTPSURL.request, lines 21-28: _get_socket, and for a host without a
\* pooled socket connect (which raises for a host that is down) and _set_socket
GetSocket(t) ==
    /\ net.fetch[t].pc = "socket"
    /\ net' = IF Exchange(URLFactory_parse(net.fetch[t].url)).raises
              THEN [net EXCEPT !.fetch[t].pc = "done", !.fetch[t].raised = TRUE]
              ELSE [net EXCEPT !.sockets = @ \cup {URLFactory_parse(net.fetch[t].url).host},
                               !.fetch[t].pc = "cookies"]
    /\ UNCHANGED <<mainvars, sidevars>>

\* HTTPSURL.request, lines 30-36: _send_http_request reads COOKIE_JAR,
\* _read_http_response stores a Set-Cookie in it and drops the socket of a
\* connection the server closes
SendAndRead(t) ==
    /\ net.fetch[t].pc = "cookies"
    /\ net' = [net EXCEPT
                 !.cookies = IF SetsCookie(net.fetch[t].url)
                             THEN @ \cup {URLFactory_parse(net.fetch[t].url).host} ELSE @,
                 !.sockets = IF ClosesConnection(net.fetch[t].url)
                             THEN @ \ {URLFactory_parse(net.fetch[t].url).host} ELSE @,
                 !.fetch[t].pc = "cache_set"]
    /\ UNCHANGED <<mainvars, sidevars>>

\* HTTPSURL.request, line 39: cache_manager.set
CacheSet(t) ==
    /\ net.fetch[t].pc = "cache_set"
    /\ net' = [net EXCEPT
                 !.cache = IF Cacheable(net.fetch[t].url) THEN @ \cup {net.fetch[t].url} ELSE @,
                 !.fetch[t].pc = "done"]
    /\ UNCHANGED <<mainvars, sidevars>>

\* NetworkThread._do_request, lines 119-150: build the response, put it on
\* response_queue, drop the request from pending_requests, call the callback
\* (on_complete of request_sync sets the event the caller waits on)
Respond(w) ==
    /\ w \in Workers
    /\ net.fetch[w].pc = "done"
    /\ net' = [net EXCEPT
                 !.response_queue = Append(@, net.fetch[w].request.request_id),
                 !.pending = PendingPop(@, net.fetch[w].request.request_id),
                 !.calls[net.fetch[w].request.request_id] = @ + 1,
                 !.got[net.fetch[w].request.request_id] =
                     NetworkResponse(net.fetch[w].request, net.fetch[w].raised),
                 !.fetch[w] = Idle]
    /\ UNCHANGED <<mainvars, sidevars>>

\* NetworkThread.request_sync, lines 209-210: the event is set, return result[0]
ReturnSync(c) ==
    /\ net.caller[c].pc = "waiting"
    /\ net.calls[net.caller[c].request.request_id] > 0
    /\ net' = [net EXCEPT !.caller[c].pc = "returned",
                          !.returned[c] = net.got[net.caller[c].request.request_id]]
    /\ UNCHANGED <<mainvars, sidevars>>

\* JSContext.XMLHttpRequest_send, run_load lines 205-207: the onload task is
\* scheduled on the tab's TaskRunner
FinishXhr(t) ==
    /\ t \in XhrSenders
    /\ net.fetch[t].pc = "done"
    /\ net' = [net EXCEPT !.fetch[t] = Idle]
    /\ tasks' = Append(tasks, [id |-> scheduled + 1, kind |-> "xhr", gen |-> tab.gen])
    /\ scheduled' = scheduled + 1
    /\ UNCHANGED <<event_queue, running, pc, tab, commit, obs, ran, posted, last_load, sidevars>>

\* NetworkThread.stop, called by shutdown_network_thread from Browser.cleanup
Stop ==
    /\ net.running
    /\ net' = [net EXCEPT !.running = FALSE, !.shutdown = TRUE]
    /\ UNCHANGED <<mainvars, sidevars>>

Caller(c) == GetNextRequestId(c) \/ ReleaseLock(c) \/ PutRequest(c) \/ ReturnSync(c)
Dispatcher == DispatcherGet \/ DispatcherSubmit \/ DispatcherExit
Fetch(t) == CacheGet(t) \/ GetSocket(t) \/ SendAndRead(t) \/ CacheSet(t)
Worker(w) == WorkerTake(w) \/ Fetch(w) \/ Respond(w)
Xhr(t) == StartXhr(t) \/ Fetch(t) \/ FinishXhr(t)

NetNext ==
    \/ \E c \in Mains : Caller(c)
    \/ Dispatcher
    \/ \E w \in Workers : Worker(w)
    \/ \E t \in XhrSenders : Xhr(t)
    \/ Stop

NetSpec == NetInit /\ [][NetNext]_vars

\* The dispatcher, the workers, the XHR threads and the main threads inside
\* request / request_sync are running threads: each takes its next step.
\* Nothing obliges a page to start a request or the browser to stop.
FairNetSpec ==
    /\ NetSpec
    /\ WF_vars(Dispatcher)
    /\ \A w \in Workers : WF_vars(Worker(w))
    /\ \A t \in XhrSenders : WF_vars(Fetch(t) \/ FinishXhr(t))
    /\ \A c \in Mains : WF_vars(ReleaseLock(c) \/ PutRequest(c) \/ ReturnSync(c))

-----------------------------------------------------------------------------
(* The HTTP client on its own: requests, direct cache calls, the clock *)

\* the main thread and the network thread as constructed, before any event
Constructed ==
    /\ event_queue = <<>>
    /\ running = TRUE
    /\ pc = "event"
    /\ tab = NewTab(ChromeBottom)
    /\ tasks = <<>>
    /\ commit = NoCommit
    /\ obs = NoObs
    /\ ran = <<>>
    /\ posted = 0
    /\ scheduled = 0
    /\ last_load = NoLoad
    /\ net = NewNetworkThread

SideInit ==
    /\ Constructed
    /\ client = NewClient
    /\ ui = NewUi
    /\ sheets = NewSheets
    /\ PageConstructed

\* time.time() moves on
Tick ==
    /\ client.now < MaxClock
    /\ client' = [client EXCEPT !.now = @ + 1]
    /\ UNCHANGED <<mainvars, net, ui, sheets, pagevars>>

\* a subresource request (script, stylesheet, XHR): the referrer is the URL
\* of the requesting frame
SubresourceRequest ==
    /\ client.ops < MaxOps
    /\ \E url \in ClientUrls, referrer \in Referrers \ {NoUrl}, payload \in Payloads,
          reply \in Replies :
          client' = HTTPSURL_request(client, url, referrer, payload, reply)
    /\ UNCHANGED <<mainvars, net, ui, sheets, pagevars>>

\* the request of a navigation (address bar, link, form submission):
\* Tab.load -> Frame.load -> url.request(referrer=self.url, payload)
PageLoadRequest ==
    /\ client.ops < MaxOps
    /\ \E url \in ClientUrls, payload \in Payloads, reply \in Replies :
          client' = HTTPSURL_request(client, url, LoadReferrer, payload, reply)
    /\ UNCHANGED <<mainvars, net, ui, sheets, pagevars>>

ClientNext == Tick \/ SubresourceRequest \/ PageLoadRequest

ClientSpec == SideInit /\ [][ClientNext]_vars

\* cache_manager.get called on its own
GetCall ==
    /\ client.ops < MaxCalls
    /\ \E url \in ClientUrls :
          client' = [client EXCEPT
                       !.ops = @ + 1,
                       !.cache = CacheManager_get(client.cache, url, client.now).cache,
                       !.last = [NoLast EXCEPT
                                   !.op = "get", !.at = client.now, !.url = url,
                                   !.lookup = CacheManager_get(client.cache, url,
                                                               client.now).lookup,
                                   !.entry = CacheManager_get(client.cache, url,
                                                              client.now).entry]]
    /\ UNCHANGED <<mainvars, net, ui, sheets, pagevars>>

\* cache_manager.set called on its own
SetCall ==
    /\ client.ops < MaxCalls
    /\ \E url \in ClientUrls, reply \in CacheReplies :
          client' = [client EXCEPT
                       !.ops = @ + 1,
                       !.cache = CacheManager_set(client.cache, url, reply, client.now),
                       !.last = [NoLast EXCEPT !.op = "set", !.at = client.now,
                                               !.url = url, !.reply = reply]]
    /\ UNCHANGED <<mainvars, net, ui, sheets, pagevars>>

CacheNext == Tick \/ GetCall \/ SetCall

CacheSpec == SideInit /\ [][CacheNext]_vars

-----------------------------------------------------------------------------
(* The UI thread, the main threads that publish commits, the compositor *)

\* Browser.new_tab: the tab becomes the active tab, its main thread starts,
\* set_needs_draw submits to the compositor
UiNewTab ==
    /\ ui.pc = "events"
    /\ \E t \in Mains \ ui.tabs :
          ui' = submit_to_compositor([ui EXCEPT !.tabs = @ \cup {t},
                                                !.active_tab = t,
                                                !.drained = FALSE])
    /\ UNCHANGED <<mainvars, net, client, sheets, pagevars>>

\* Browser.handle_click on a tab rect of the chrome: Chrome.click sets
\* active_tab, handle_click then calls set_needs_draw
UiClickTab ==
    /\ ui.pc = "events"
    /\ ui.switches < MaxSwitches
    /\ \E t \in ui.tabs \ {ui.active_tab} :
          ui' = submit_to_compositor([ui EXCEPT !.active_tab = t, !.switches = @ + 1,
                                                !.drained = FALSE])
    /\ UNCHANGED <<mainvars, net, client, sheets, pagevars>>

\* Browser.run: the input events are done, process_commits begins
BeginProcessCommits ==
    /\ ui.pc = "events"
    /\ ui.tabs # {}
    /\ ui' = [ui EXCEPT !.pc = "drain", !.drained = FALSE]
    /\ UNCHANGED <<mainvars, net, client, sheets, pagevars>>

\* Browser.process_commits: get_nowait returns a commit
ProcessCommit ==
    /\ ui.pc = "drain"
    /\ ui.commit_queue # <<>>
    /\ ui' = ApplyCommit([ui EXCEPT !.commit_queue = Tail(@)], Head(ui.commit_queue))
    /\ UNCHANGED <<mainvars, net, client, sheets, pagevars>>

\* Browser.process_commits: get_nowait raises Empty, the drain is over
EndProcessCommits ==
    /\ ui.pc = "drain"
    /\ ui.commit_queue = <<>>
    /\ ui' = [ui EXCEPT !.pc = "events", !.drained = TRUE, !.seen = ui.published]
    /\ UNCHANGED <<mainvars, net, client, sheets, pagevars>>

\* MainThread._commit / _commit_scroll of the main thread of tab t
Publish(t) ==
    /\ t \in ui.tabs
    /\ ui.published[t] < MaxCommits
    /\ ui' = [ui EXCEPT !.published[t] = @ + 1,
                        !.commit_queue = Append(@, [tab_id |-> t,
                                                    n |-> ui.published[t] + 1])]
    /\ UNCHANGED <<mainvars, net, client, sheets, pagevars>>

\* CompositorThread._process_data_queue: get_nowait returns a packet
CompositorGet ==
    /\ ui.comp.pc = "drain"
    /\ ui.data_queue # <<>>
    /\ ui' = [ui EXCEPT !.data_queue = Tail(@),
                        !.comp = KeepLatest(@, Head(ui.data_queue))]
    /\ UNCHANGED <<mainvars, net, client, sheets, pagevars>>

\* CompositorThread._process_data_queue: get_nowait raises Empty
CompositorEmpty ==
    /\ ui.comp.pc = "drain"
    /\ ui.data_queue = <<>>
    /\ ui' = [ui EXCEPT !.comp.pc = IF ui.comp.taken > 0 THEN "apply" ELSE "render",
                        !.comp.at_empty = ui.submitted]
    /\ UNCHANGED <<mainvars, net, client, sheets, pagevars>>

\* CompositorThread._apply_data
CompositorApply ==
    /\ ui.comp.pc = "apply"
    /\ ui' = [ui EXCEPT !.comp.current_data = ui.comp.latest_data,
                        !.comp.pc = "render"]
    /\ UNCHANGED <<mainvars, net, client, sheets, pagevars>>

\* CompositorThread.run, lines 100-109: _render_frame if there is
\* current_data, then the frame ends
CompositorRender ==
    /\ ui.comp.pc = "render"
    /\ ui' = [ui EXCEPT !.comp.rendered = IF ui.comp.current_data = NoPacket THEN @
                                          ELSE @ \cup {ui.comp.current_data.seq},
                        !.comp.latest_data = NoPacket,
                        !.comp.taken = 0,
                        !.comp.pc = "drain"]
    /\ UNCHANGED <<mainvars, net, client, sheets, pagevars>>

UiThread == UiNewTab \/ UiClickTab \/ BeginProcessCommits \/ ProcessCommit \/ EndProcessCommits
Compositor == CompositorGet \/ CompositorEmpty \/ CompositorApply \/ CompositorRender

UiNext ==
    \/ UiThread
    \/ \E t \in Mains : Publish(t)
    \/ Compositor

UiSpec == SideInit /\ [][UiNext]_vars

-----------------------------------------------------------------------------
(* The stylesheet loading of one Frame.load, and the network's callbacks *)

\* _load_stylesheets, lines 135-166: collect the links, start the requests
StartRequests ==
    /\ sheets.pc = "start"
    /\ \E n \in 0..MaxSheets, blocked \in SUBSET Sheets :
          /\ blocked \subseteq 1..n
          /\ sheets' = [sheets EXCEPT
                          !.links = n,
                          !.pending = PendingRequests(1, n, blocked),
                          !.pc = "wait"]
    /\ UNCHANGED <<mainvars, net, client, ui, pagevars>>

\* a network worker calls on_stylesheet_loaded: the response (or an error
\* response) is stored and the event is set
StylesheetLoaded ==
    /\ \E i \in DOMAIN sheets.pending, r \in {"ok", "error"} :
          /\ sheets.holder[sheets.pending[i]] = "none"
          /\ sheets' = [sheets EXCEPT !.holder[sheets.pending[i]] = r,
                                      !.arrived = Append(@, sheets.pending[i])]
    /\ UNCHANGED <<mainvars, net, client, ui, pagevars>>

\* _load_stylesheets, lines 169-176: event.wait returns because the event is
\* set
WaitReturns ==
    /\ sheets.pc = "wait"
    /\ sheets.next <= Len(sheets.pending)
    /\ sheets.holder[sheets.pending[sheets.next]] # "none"
    /\ sheets' = [sheets EXCEPT
                    !.rules = ExtendRules(@, sheets.pending[sheets.next],
                                          sheets.holder[sheets.pending[sheets.next]]),
                    !.next = @ + 1]
    /\ UNCHANGED <<mainvars, net, client, ui, pagevars>>

\* _load_stylesheets, lines 169-172: event.wait returns after its 10 s with
\* no response stored
WaitTimesOut ==
    /\ sheets.pc = "wait"
    /\ sheets.next <= Len(sheets.pending)
    /\ sheets.holder[sheets.pending[sheets.next]] = "none"
    /\ sheets' = [sheets EXCEPT !.timed_out = @ \cup {sheets.pending[sheets.next]},
                                !.next = @ + 1]
    /\ UNCHANGED <<mainvars, net, client, ui, pagevars>>

\* Frame.load, lines 122-131: render, _load_scripts, _load_iframes
Proceed ==
    /\ sheets.pc = "wait"
    /\ sheets.next > Len(sheets.pending)
    /\ sheets' = [sheets EXCEPT !.pc = "done"]
    /\ UNCHANGED <<mainvars, net, client, ui, pagevars>>

SheetsNext == StartRequests \/ StylesheetLoaded \/ WaitReturns \/ WaitTimesOut \/ Proceed

SheetsSpec == SideInit /\ [][SheetsNext]_vars

-----------------------------------------------------------------------------
(* Frame.load from line 113 on: stylesheets, render, scripts, iframes, and
   the TaskRunner of the tab *)

\* Frame.load, lines 113-120: the document and its policy are adopted,
\* _load_stylesheets asks for the stylesheet the policy allows
LoadStylesheets ==
    /\ page.pc = "fetch"
    /\ \E csp \in Csps, sheet \in ResourceHosts, scripts \in ScriptLists,
          iframe \in ResourceHosts \cup {NoIframe} :
          page' = [(IF CspBlocks(csp, "stylesheet", sheet) THEN page
                    ELSE Request(page, "stylesheet", 1, sheet))
                     EXCEPT !.csp = csp, !.sheet = sheet, !.scripts = scripts,
                            !.iframe = iframe, !.pc = "render"]
    /\ UNCHANGED <<basevars, morevars, frames, ids, dom, boxes, gpu>>

\* Frame.load, line 123, and _load_scripts, lines 182-192: the first render,
\* then the new JSContext
RenderThenScripts ==
    /\ page.pc = "render"
    /\ page' = [page EXCEPT !.rendered = TRUE, !.pc = "scripts"]
    /\ UNCHANGED <<basevars, morevars, frames, ids, dom, boxes, gpu>>

\* _load_scripts, lines 195-207: the next script is skipped by the policy or
\* asked of the network with request_sync, which blocks
RequestScript ==
    /\ page.pc = "scripts"
    /\ page.next <= Len(page.scripts)
    /\ page' = IF CspBlocks(page.csp, "script", page.scripts[page.next])
               THEN [page EXCEPT !.next = @ + 1]
               ELSE [Request(page, "script", page.next, page.scripts[page.next])
                        EXCEPT !.pc = "fetching"]
    /\ UNCHANGED <<basevars, morevars, frames, ids, dom, boxes, gpu>>

\* _load_scripts, lines 208-214: request_sync returns a body, an error
\* response, or raises; only a body is scheduled as a task
ScriptResponse ==
    /\ page.pc = "fetching"
    /\ \E outcome \in {"ok", "error", "raises"} :
          page' = [page EXCEPT
                     !.tasks = IF outcome = "ok"
                               THEN schedule_task(@, [kind |-> "script", index |-> page.next])
                               ELSE @,
                     !.failed = IF outcome = "ok" THEN @ ELSE @ \cup {page.next},
                     !.next = @ + 1,
                     !.pc = "scripts"]
    /\ UNCHANGED <<basevars, morevars, frames, ids, dom, boxes, gpu>>

\* _load_iframes, lines 229-259: the iframe is skipped by the policy or a
\* child frame loads its URL; Frame.load returns
LoadIframes ==
    /\ page.pc = "scripts"
    /\ page.next > Len(page.scripts)
    /\ page' = [(IF page.iframe = NoIframe \/ CspBlocks(page.csp, "iframe", page.iframe)
                 THEN page
                 ELSE Request(page, "iframe", 1, page.iframe))
                  EXCEPT !.pc = "loaded"]
    /\ UNCHANGED <<basevars, morevars, frames, ids, dom, boxes, gpu>>

\* JSContext.setTimeout, run_callback on a Timer thread: a task of an
\* earlier document is scheduled
TimerFires ==
    /\ page.timers < MaxTimers
    /\ page' = [page EXCEPT !.timers = @ + 1,
                            !.tasks = schedule_task(@, [kind |-> "timer", index |-> page.timers + 1])]
    /\ UNCHANGED <<basevars, morevars, frames, ids, dom, boxes, gpu>>

\* MainThread.run after the LOAD handler has returned: TaskRunner.run pops
\* and runs the first task
RunFirstTask ==
    /\ page.pc = "loaded"
    /\ page.tasks # <<>>
    /\ page' = [page EXCEPT !.tasks = PopTask(@).rest,
                            !.executed = Append(@, PopTask(page.tasks).task)]
    /\ UNCHANGED <<basevars, morevars, frames, ids, dom, boxes, gpu>>

PageNext ==
    \/ LoadStylesheets
    \/ RenderThenScripts
    \/ RequestScript
    \/ ScriptResponse
    \/ LoadIframes
    \/ TimerFires
    \/ RunFirstTask

PageSpec == SideInit /\ [][PageNext]_vars

-----------------------------------------------------------------------------
(* The scripts of the frames of a tab calling the host functions *)

\* Tab.load of a page with one iframe: the root frame and the child frame
\* get their documents, policies and JS contexts
LoadFrames ==
    /\ frames.pc = "empty"
    /\ \E urls \in [FrameNames -> FrameUrls], csps \in [FrameNames -> ConnectCsps] :
          frames' = [frames EXCEPT !.pc = "ready", !.url = urls, !.csp = csps,
                                   !.frame_id = [f \in FrameNames |->
                                                    IF f = "root" THEN 1 ELSE 2],
                                   !.counter = 2]
    /\ UNCHANGED <<basevars, morevars, page, ids, dom, boxes, gpu>>

\* a script running in the context of caller
Scripted(caller) ==
    /\ frames.pc = "ready"
    /\ frames.calls < MaxJsCalls
    /\ caller \in TabFrames(frames)

\* the frame ids a script can pass: those handed out so far and one more
FrameIdArgs == 1..(frames.counter + 1)

CallXMLHttpRequest_send ==
    /\ \E caller \in FrameNames, frame_id \in FrameIdArgs, url \in FrameUrls,
          is_async \in BOOLEAN :
          /\ Scripted(caller)
          /\ frames' = XMLHttpRequest_send(frames, caller, frame_id, url, is_async)
    /\ UNCHANGED <<basevars, morevars, page, ids, dom, boxes, gpu>>

\* XMLHttpRequest_send, run_load on its own thread, lines 203-208
RunLoad ==
    /\ frames.threads > 0
    /\ frames' = [frames EXCEPT !.threads = @ - 1, !.requests = @ + 1, !.tasks = @ + 1]
    /\ UNCHANGED <<basevars, morevars, page, ids, dom, boxes, gpu>>

CallQuerySelectorAll ==
    /\ \E caller \in FrameNames, frame_id \in FrameIdArgs :
          /\ Scripted(caller)
          /\ frames' = querySelectorAll(frames, caller, frame_id)
    /\ UNCHANGED <<basevars, morevars, page, ids, dom, boxes, gpu>>

CallGetLocationHref ==
    /\ \E caller \in FrameNames, frame_id \in FrameIdArgs :
          /\ Scripted(caller)
          /\ frames' = getLocationHref(frames, caller, frame_id)
    /\ UNCHANGED <<basevars, morevars, page, ids, dom, boxes, gpu>>

CallSetLocationHref ==
    /\ \E caller \in FrameNames, frame_id \in FrameIdArgs, url \in FrameUrls :
          /\ Scripted(caller)
          /\ frames' = setLocationHref(frames, caller, frame_id, url)
    /\ UNCHANGED <<basevars, morevars, page, ids, dom, boxes, gpu>>

CallPostMessage ==
    /\ \E caller \in FrameNames, frame_id \in FrameIdArgs, target_origin \in TargetOrigins :
          /\ Scripted(caller)
          /\ frames' = postMessage(frames, caller, frame_id, target_origin)
    /\ UNCHANGED <<basevars, morevars, page, ids, dom, boxes, gpu>>

JsNext ==
    \/ LoadFrames
    \/ CallXMLHttpRequest_send
    \/ RunLoad
    \/ CallQuerySelectorAll
    \/ CallGetLocationHref
    \/ CallSetLocationHref
    \/ CallPostMessage

JsSpec == SideInit /\ [][JsNext]_vars

-----------------------------------------------------------------------------
(* The main threads of the tabs building JSContexts *)

\* Tab.load, lines 116-120: a new root Frame, whose load reaches
\* _load_scripts line 189, JSContext(self)
BuildFrame(t) ==
    /\ ids.thread[t].pc = "idle"
    /\ ids.thread[t].loads < MaxFrameLoads
    /\ ids' = [ids EXCEPT !.thread[t].pc = "read",
                          !.thread[t].frame = @ + 1,
                          !.thread[t].loads = @ + 1]
    /\ UNCHANGED <<basevars, morevars, page, frames, dom, boxes, gpu>>

\* setLocationHref, line 255: the Frame the tab has loads again and reaches
\* _load_scripts line 189, JSContext(self)
ReloadFrame(t) ==
    /\ ids.thread[t].pc = "idle"
    /\ ids.thread[t].loads < MaxFrameLoads
    /\ ids.thread[t].frame > 0
    /\ ids' = [ids EXCEPT !.thread[t].pc = "read", !.thread[t].loads = @ + 1]
    /\ UNCHANGED <<basevars, morevars, page, frames, dom, boxes, gpu>>

\* _generate_frame_id, line 32: the global is read
ReadCounter(t) ==
    /\ ids.thread[t].pc = "read"
    /\ ids' = [ids EXCEPT !.thread[t].pc = "store", !.thread[t].tmp = ids.counter]
    /\ UNCHANGED <<basevars, morevars, page, frames, dom, boxes, gpu>>

\* _generate_frame_id, line 32: the sum is stored in the global
StoreCounter(t) ==
    /\ ids.thread[t].pc = "store"
    /\ ids' = [ids EXCEPT !.thread[t].pc = "return", !.counter = ids.thread[t].tmp + 1]
    /\ UNCHANGED <<basevars, morevars, page, frames, dom, boxes, gpu>>

\* _generate_frame_id, line 33, and JSContext.__init__, line 47: the global
\* is read again and becomes the frame_id of the Frame's JSContext
ReturnId(t) ==
    /\ ids.thread[t].pc = "return"
    /\ ids' = [ids EXCEPT !.thread[t].pc = "idle",
                          !.frame_id[<<t, ids.thread[t].frame>>] = ids.counter,
                          !.had[<<t, ids.thread[t].frame>>] = @ \cup {ids.counter}]
    /\ UNCHANGED <<basevars, morevars, page, frames, dom, boxes, gpu>>

IdNext ==
    \E t \in Mains :
        \/ BuildFrame(t)
        \/ ReloadFrame(t)
        \/ ReadCounter(t)
        \/ StoreCounter(t)
        \/ ReturnId(t)

IdSpec == SideInit /\ [][IdNext]_vars

-----------------------------------------------------------------------------
(* The DOM of a frame: parsing, exporting handles, innerHTML_set *)

\* the nodes of the frame's document
InDocument(d) ==
    IF d.root = NoNode THEN {} ELSE Descendants(d.nodes, d.root, Len(d.nodes))

\* Frame.load, lines 101 and 114: the body is parsed and becomes Frame.nodes
ParseDocument ==
    /\ dom.root = NoNode
    /\ \E tokens \in TokenSeqs :
          dom' = [dom EXCEPT !.nodes = ParseTokens(dom.nodes, tokens).nodes,
                             !.root = ParseTokens(dom.nodes, tokens).unfinished[1]]
    /\ UNCHANGED <<basevars, morevars, page, frames, ids, boxes, gpu>>

\* JSContext.querySelectorAll, line 153: get_handle exports an element of
\* the document
GetHandle ==
    /\ Cardinality(dom.handles) < MaxHandles
    /\ \E n \in InDocument(dom) \ dom.handles :
          /\ dom.nodes[n].tag \notin {"#text"}
          /\ dom' = [dom EXCEPT !.handles = @ \cup {n}]
    /\ UNCHANGED <<basevars, morevars, page, frames, ids, boxes, gpu>>

\* a script sets innerHTML of an element it has a handle of
InnerHTMLSet ==
    /\ dom.sets < MaxSets
    /\ \E elt \in dom.handles, value \in TokenSeqs :
          dom' = innerHTML_set_value(dom, elt, value)
    /\ UNCHANGED <<basevars, morevars, page, frames, ids, boxes, gpu>>

DomNext == ParseDocument \/ GetHandle \/ InnerHTMLSet

DomSpec == SideInit /\ [][DomNext]_vars

-----------------------------------------------------------------------------
(* Frame.render laying out the documents *)

LayoutInit ==
    /\ Constructed
    /\ client = NewClient
    /\ ui = NewUi
    /\ sheets = NewSheets
    /\ page = NewPage
    /\ frames = NewFrames
    /\ ids = NewIds
    /\ dom = NewDom
    /\ gpu = NewGpu
    /\ pool = NewPool
    /\ clk = NewClk
    /\ tree = NewTree
    /\ kbd = NewKbd
    /\ boxes \in ParsedFrames

\* Frame.render, lines 276-278: a new DocumentLayout is laid out
RenderLayout ==
    /\ boxes.pc = "parsed"
    /\ boxes' = [boxes EXCEPT !.pc = "laid",
                              !.document = DocumentLayout_layout(boxes.nodes, boxes.width)]
    /\ UNCHANGED <<basevars, morevars, page, frames, ids, dom, gpu>>

\* JSContext.innerHTML_set on the last child of <body>, then Tab.render:
\* the changed document is laid out again
RenderAgain ==
    /\ boxes.pc = "laid"
    /\ boxes.renders < MaxRenders
    /\ \E n \in InnerNodes :
          /\ n # Last(boxes.nodes.children)
          /\ boxes' = [boxes EXCEPT
                !.nodes.children[Len(boxes.nodes.children)] = n,
                !.renders = @ + 1,
                !.document =
                    DocumentLayout_layout(
                        [boxes.nodes EXCEPT !.children[Len(boxes.nodes.children)] = n],
                        boxes.width)]
    /\ UNCHANGED <<basevars, morevars, page, frames, ids, dom, gpu>>

LayoutNext == RenderLayout \/ RenderAgain

LayoutSpec == LayoutInit /\ [][LayoutNext]_vars

-----------------------------------------------------------------------------
(* The browser thread submitting packets, the compositor thread rendering *)

\* Browser.process_commits: a commit of the active tab becomes active_commit
\* and on_tab_content_changed marks both flags and submits
ProcessCommits ==
    /\ gpu.browser.pc = "events"
    /\ gpu.browser.submits < MaxSubmits
    /\ \E h \in DocHeights :
          gpu' = SubmitPacket(
                    [gpu EXCEPT
                        !.browser.active_commit =
                            [display_list |-> @.display_list + 1, document_height |-> h],
                        !.browser.tab_needs_raster = TRUE,
                        !.browser.chrome_needs_raster = TRUE])
    /\ UNCHANGED <<basevars, morevars, page, frames, ids, dom, boxes>>

\* Browser.handle_click, handle_text_input, handle_backspace, handle_return,
\* on_chrome_changed: the chrome is marked and a packet submitted
OnChromeChanged ==
    /\ gpu.browser.pc = "events"
    /\ gpu.browser.submits < MaxSubmits
    /\ gpu' = SubmitPacket([gpu EXCEPT !.browser.chrome = @ + 1,
                                       !.browser.chrome_needs_raster = TRUE])
    /\ UNCHANGED <<basevars, morevars, page, frames, ids, dom, boxes>>

\* Browser.handle_resize, lines 226-230, into CompositorThread.resize and
\* _resize_surfaces up to SDL_DestroyTexture, on the browser thread and
\* under the compositor's lock
HandleResizeBegin ==
    /\ gpu.browser.pc = "events"
    /\ gpu.browser.resizes < MaxWindowResizes
    /\ gpu' = [gpu EXCEPT
                !.browser.pc = "resizing",
                !.browser.resizes = @ + 1,
                !.browser.size = IF @ = WindowSize THEN ResizedTo ELSE WindowSize,
                !.compositor.size = IF gpu.browser.size = WindowSize THEN ResizedTo ELSE WindowSize,
                !.compositor.root_surface =
                    Surface(gpu.compositor.next_id, "browser",
                            IF gpu.browser.size = WindowSize THEN ResizedTo.height
                            ELSE WindowSize.height),
                !.compositor.sdl_texture.alive = FALSE]
    /\ UNCHANGED <<basevars, morevars, page, frames, ids, dom, boxes>>

\* the rest of _resize_surfaces (SDL_CreateTexture, the dirty flags), the
\* lock released, and Browser.handle_resize, lines 232-243
HandleResizeEnd ==
    /\ gpu.browser.pc = "resizing"
    /\ gpu' = SubmitPacket(
                [gpu EXCEPT
                    !.browser.pc = "events",
                    !.browser.chrome_needs_raster = TRUE,
                    !.compositor.sdl_texture =
                        [id |-> gpu.compositor.next_id, by |-> "browser", alive |-> TRUE],
                    !.compositor.next_id = @ + 1,
                    !.compositor.chrome_needs_raster = TRUE,
                    !.compositor.tab_needs_raster = TRUE])
    /\ UNCHANGED <<basevars, morevars, page, frames, ids, dom, boxes>>

\* Browser.run on SDL_QUIT, Browser.cleanup, line 343: compositor.stop()
BrowserStop ==
    /\ gpu.browser.pc = "events"
    /\ gpu' = [gpu EXCEPT !.browser.pc = "joining", !.compositor.running = FALSE]
    /\ UNCHANGED <<basevars, morevars, page, frames, ids, dom, boxes>>

\* Browser.cleanup, lines 344-345: join(timeout=1.0) returns, the thread
\* ended or not, and CompositorThread.cleanup destroys the texture
CleanupTexture ==
    /\ gpu.browser.pc = "joining"
    /\ gpu' = [gpu EXCEPT !.browser.pc = "cleaning",
                          !.compositor.sdl_texture.alive = FALSE]
    /\ UNCHANGED <<basevars, morevars, page, frames, ids, dom, boxes>>

\* CompositorThread.cleanup, lines 333-335: the surfaces are dropped
CleanupSurfaces ==
    /\ gpu.browser.pc = "cleaning"
    /\ gpu' = [gpu EXCEPT !.browser.pc = "done",
                          !.compositor.root_surface = NoSurface,
                          !.compositor.chrome_surface = NoSurface,
                          !.compositor.tab_surface = NoSurface]
    /\ UNCHANGED <<basevars, morevars, page, frames, ids, dom, boxes>>

\* the compositor thread after its step at the queue: a frame is rendered
\* when there is current_data
AfterQueue(c) ==
    [c EXCEPT !.pc = IF c.current_data = NoData THEN "queue" ELSE "raster_chrome",
              !.frame_root = c.root_surface.id,
              !.frame_texture = c.sdl_texture.id]

\* CompositorThread.run, lines 97-99: the queue is drained and its newest
\* packet applied under the lock
ProcessDataQueue ==
    /\ gpu.compositor.pc = "queue"
    /\ gpu.compositor.running
    /\ gpu.data_queue # <<>> => gpu.browser.pc # "resizing"
    /\ gpu' = [gpu EXCEPT
                !.compositor = AfterQueue(process_data_queue(@, gpu.data_queue)),
                !.data_queue = <<>>]
    /\ UNCHANGED <<basevars, morevars, page, frames, ids, dom, boxes>>

\* CompositorThread.run, line 96: the loop ends when running is False
CompositorExit ==
    /\ gpu.compositor.pc = "queue"
    /\ ~gpu.compositor.running
    /\ gpu' = [gpu EXCEPT !.compositor.pc = "stopped"]
    /\ UNCHANGED <<basevars, morevars, page, frames, ids, dom, boxes>>

\* CompositorThread._raster_chrome
RasterChrome ==
    /\ gpu.compositor.pc = "raster_chrome"
    /\ gpu' = IF \/ ~gpu.compositor.chrome_needs_raster
                 \/ gpu.compositor.chrome_surface = NoSurface
                 \/ gpu.compositor.current_data.chrome_commands = 0
              THEN [gpu EXCEPT !.compositor.pc = "raster_tab"]
              ELSE [gpu EXCEPT
                      !.compositor.pc = "raster_tab",
                      !.compositor.chrome_surface.content =
                          [Blank EXCEPT !.chrome = gpu.compositor.current_data.chrome_commands],
                      !.compositor.chrome_needs_raster = FALSE]
    /\ UNCHANGED <<basevars, morevars, page, frames, ids, dom, boxes>>

\* CompositorThread._raster_tab
RasterTab ==
    /\ gpu.compositor.pc = "raster_tab"
    /\ gpu' = IF \/ ~gpu.compositor.tab_needs_raster
                 \/ gpu.compositor.tab_surface = NoSurface
                 \/ gpu.compositor.current_data.display_list = 0
              THEN [gpu EXCEPT !.compositor.pc = "composite"]
              ELSE [gpu EXCEPT
                      !.compositor.pc = "composite",
                      !.compositor.tab_surface.content =
                          [Blank EXCEPT !.tab = gpu.compositor.current_data.display_list],
                      !.compositor.tab_needs_raster = FALSE]
    /\ UNCHANGED <<basevars, morevars, page, frames, ids, dom, boxes>>

\* CompositorThread._composite: the tab and chrome surfaces are drawn on the
\* root surface; with root_surface None the thread ends in an AttributeError
Composite ==
    /\ gpu.compositor.pc = "composite"
    /\ gpu' = IF gpu.compositor.root_surface = NoSurface
              THEN [gpu EXCEPT !.compositor.pc = "stopped"]
              ELSE [gpu EXCEPT
                      !.compositor.pc = "blit",
                      !.compositor.root_surface.content =
                          [tab |-> gpu.compositor.tab_surface.content.tab,
                           chrome |-> gpu.compositor.chrome_surface.content.chrome]]
    /\ UNCHANGED <<basevars, morevars, page, frames, ids, dom, boxes>>

\* CompositorThread._blit_to_sdl: the root surface goes to the texture and
\* the texture to the window; SDL_UpdateTexture on a destroyed texture may
\* show the frame, leave the window, show garbage or end the thread
BlitToSdl ==
    /\ gpu.compositor.pc = "blit"
    /\ \/ /\ gpu.compositor.root_surface = NoSurface
          /\ gpu' = [gpu EXCEPT !.compositor.pc = "stopped"]
       \/ /\ gpu.compositor.root_surface # NoSurface
          /\ gpu.compositor.sdl_texture.alive
          /\ gpu' = [gpu EXCEPT !.compositor.pc = "queue",
                                !.screen = gpu.compositor.root_surface.content]
       \/ /\ gpu.compositor.root_surface # NoSurface
          /\ ~gpu.compositor.sdl_texture.alive
          /\ \E shown \in {gpu.screen, GarbagePixels, gpu.compositor.root_surface.content},
                next \in {"queue", "stopped"} :
                gpu' = [gpu EXCEPT !.compositor.pc = next, !.screen = shown]
    /\ UNCHANGED <<basevars, morevars, page, frames, ids, dom, boxes>>

\* the steps of the browser thread
BrowserStep ==
    \/ ProcessCommits
    \/ OnChromeChanged
    \/ HandleResizeBegin
    \/ HandleResizeEnd
    \/ BrowserStop
    \/ CleanupTexture
    \/ CleanupSurfaces

\* the steps of CompositorThread.run
CompositorStep ==
    \/ ProcessDataQueue
    \/ CompositorExit
    \/ RasterChrome
    \/ RasterTab
    \/ Composite
    \/ BlitToSdl

RasterNext == BrowserStep \/ CompositorStep

RasterSpec == SideInit /\ [][RasterNext]_vars

\* the compositor thread keeps running its loop, and a resize that holds the
\* lock completes
FairRasterSpec ==
    RasterSpec /\ WF_vars(CompositorStep) /\ WF_vars(HandleResizeEnd)

-----------------------------------------------------------------------------
(* Threads inside HTTPSURL.request for the same (scheme, host, port) *)

\* a worker (or an XHR thread) enters HTTPSURL.request and misses the cache
StartRequest(t) ==
    /\ pool.thread[t].pc \in {"idle", "done"}
    /\ pool.requests < MaxPoolRequests
    /\ pool' = [pool EXCEPT !.requests = @ + 1,
                            !.thread[t] = [IdleRequest EXCEPT !.pc = "get_socket"]]
    /\ UNCHANGED <<restvars, clk, tree, kbd>>

\* HTTPSURL.request, lines 21-22: _get_socket
PoolGetSocket(t) ==
    /\ pool.thread[t].pc = "get_socket"
    /\ pool' = [pool EXCEPT
                  !.socket_map = get_socket(pool),
                  !.thread[t].s = get_socket(pool),
                  !.thread[t].outer = get_socket(pool),
                  !.thread[t].handed_closed =
                      get_socket(pool) # NoSock /\ pool.socks[get_socket(pool)].closed,
                  !.thread[t].pc = IF get_socket(pool) = NoSock THEN "open" ELSE "send"]
    /\ UNCHANGED <<restvars, clk, tree, kbd>>

\* HTTPSURL.request, lines 23-27: _open_socket, wrap_socket, connect
OpenWrapConnect(t) ==
    /\ pool.thread[t].pc = "open"
    /\ pool' = [open_socket(pool, TRUE) EXCEPT
                  !.thread[t].s = pool.next,
                  !.thread[t].outer = pool.next,
                  !.thread[t].pc = "set_socket"]
    /\ UNCHANGED <<restvars, clk, tree, kbd>>

\* HTTPSURL.request, line 28: _set_socket
PoolSetSocket(t) ==
    /\ pool.thread[t].pc = "set_socket"
    /\ pool' = [pool EXCEPT !.socket_map = pool.thread[t].s,
                            !.thread[t].pc = "send"]
    /\ UNCHANGED <<restvars, clk, tree, kbd>>

\* HTTPSURL.request, line 30: _send_http_request; send raises on a socket
\* closed on this side, and may raise on one the server has closed
PoolSend(t) ==
    /\ pool.thread[t].pc = "send"
    /\ \/ /\ pool.socks[pool.thread[t].s].closed \/ pool.socks[pool.thread[t].s].peer_closed
          /\ pool' = Raise(pool, t)
       \/ /\ ~pool.socks[pool.thread[t].s].closed
          /\ pool' = [send_http_request(pool, t, pool.thread[t].s) EXCEPT
                        !.thread[t].pc = "read"]
    /\ UNCHANGED <<restvars, clk, tree, kbd>>

\* _read_http_response, lines 73-79 and 91-166: the status line, headers and
\* body of the next response on the socket; an empty status line leads to
\* the retry. The response read is the server's answer to the oldest
\* unanswered request on the connection.
ReadResponse(t) ==
    /\ pool.thread[t].pc = "read"
    /\ \/ /\ pool.socks[pool.thread[t].s].closed
          /\ pool' = Raise(pool, t)
       \/ /\ ~pool.socks[pool.thread[t].s].closed
          /\ pool.socks[pool.thread[t].s].wire # <<>>
          /\ pool' = [pool EXCEPT
                        !.socks[pool.thread[t].s].wire = Tail(@),
                        !.thread[t].got = Head(pool.socks[pool.thread[t].s].wire),
                        !.thread[t].pc = "finish"]
       \/ /\ ~pool.socks[pool.thread[t].s].closed
          /\ pool.socks[pool.thread[t].s].wire = <<>>
          /\ pool.socks[pool.thread[t].s].peer_closed
          /\ pool' = [pool EXCEPT !.thread[t].pc = "retry"]
    /\ UNCHANGED <<restvars, clk, tree, kbd>>

\* _read_http_response, lines 80-86: the socket is closed and removed, a new
\* socket opened with _open_socket, connected and stored
RetryReopen(t) ==
    /\ pool.thread[t].pc = "retry"
    /\ pool' = [open_socket(close_and_remove(pool, pool.thread[t].s), FALSE) EXCEPT
                  !.socket_map = pool.next,
                  !.thread[t].s = pool.next,
                  !.thread[t].pc = "retry_send"]
    /\ UNCHANGED <<restvars, clk, tree, kbd>>

\* _read_http_response, line 87: the request is sent again
RetrySend(t) ==
    /\ pool.thread[t].pc = "retry_send"
    /\ \/ /\ pool.socks[pool.thread[t].s].closed
          /\ pool' = Raise(pool, t)
       \/ /\ ~pool.socks[pool.thread[t].s].closed
          /\ pool' = [send_http_request(pool, t, pool.thread[t].s) EXCEPT
                        !.socks[pool.thread[t].s].peer_closed = @ \/ ~pool.socks[pool.thread[t].s].tls,
                        !.thread[t].pc = "retry_read"]
    /\ UNCHANGED <<restvars, clk, tree, kbd>>

\* _read_http_response, lines 88-93: the status line is read again, and a
\* line that is still empty or malformed raises ValueError
RetryRead(t) ==
    /\ pool.thread[t].pc = "retry_read"
    /\ pool' = IF pool.socks[pool.thread[t].s].closed \/ pool.socks[pool.thread[t].s].wire = <<>>
               THEN Raise(pool, t)
               ELSE [pool EXCEPT
                        !.socks[pool.thread[t].s].wire = Tail(@),
                        !.thread[t].got = Head(pool.socks[pool.thread[t].s].wire),
                        !.thread[t].pc = "finish"]
    /\ UNCHANGED <<restvars, clk, tree, kbd>>

\* _read_http_response, lines 156-158, and HTTPSURL.request, lines 34-36: a
\* response with Connection: close closes the socket read from and the one
\* request() holds, and removes the key
FinishResponse(t) ==
    /\ pool.thread[t].pc = "finish"
    /\ \E close \in BOOLEAN :
          pool' = IF close
                  THEN [close_and_remove(close_and_remove(pool, pool.thread[t].s),
                                         pool.thread[t].outer)
                           EXCEPT !.socks[pool.thread[t].s].peer_closed = TRUE,
                                  !.thread[t].pc = "done"]
                  ELSE [pool EXCEPT !.thread[t].pc = "done"]
    /\ UNCHANGED <<restvars, clk, tree, kbd>>

\* the server closes an idle keep-alive connection
ServerCloses ==
    /\ \E id \in SocketIds :
          /\ pool.socks[id].made
          /\ ~pool.socks[id].closed
          /\ ~pool.socks[id].peer_closed
          /\ pool.socks[id].wire = <<>>
          /\ pool' = [pool EXCEPT !.socks[id].peer_closed = TRUE]
    /\ UNCHANGED <<restvars, clk, tree, kbd>>

Requester(t) ==
    \/ StartRequest(t)
    \/ PoolGetSocket(t)
    \/ OpenWrapConnect(t)
    \/ PoolSetSocket(t)
    \/ PoolSend(t)
    \/ ReadResponse(t)
    \/ RetryReopen(t)
    \/ RetrySend(t)
    \/ RetryRead(t)
    \/ FinishResponse(t)

PoolNext == (\E t \in Workers : Requester(t)) \/ ServerCloses

PoolSpec == SideInit /\ [][PoolNext]_vars

-----------------------------------------------------------------------------
(* CLICK events on a loaded document *)

\* Tab.load of a document
LoadClickDoc ==
    /\ clk.pc = "none"
    /\ \E doc \in ClickDocs :
          /\ WellFormed(doc)
          /\ clk' = ClickStart(doc)
    /\ UNCHANGED <<restvars, pool, tree, kbd>>

\* MainThread._handle_event, CLICK branch: Tab.click with the element the
\* hit test finds (NoElt: the click hits <body> only)
HandleClick ==
    /\ clk.pc = "loaded"
    /\ ~clk.raised
    /\ clk.clicks < MaxClicks
    /\ \E e \in {NoElt} \cup DOMAIN clk.doc, prevent \in BOOLEAN :
          clk' = Tab_click(clk, e, prevent)
    /\ UNCHANGED <<restvars, pool, tree, kbd>>

ClickNext == LoadClickDoc \/ HandleClick

ClickSpec == SideInit /\ [][ClickNext]_vars

-----------------------------------------------------------------------------
(* Loads and reloads of the frames of a tab *)

\* Tab.load of the root page of a site
LoadTree ==
    /\ tree.pc = "none"
    /\ \E site \in TreeSites : tree' = Tab_load_tree(tree, site)
    /\ UNCHANGED <<restvars, pool, clk, kbd>>

\* JSContext.setLocationHref: a frame found in Tab.frames is loaded again;
\* the tab's display list is composited only by the next Tab.render
SetLocationTree ==
    /\ tree.pc = "loaded"
    /\ tree.reloads < MaxTreeReloads
    /\ \E i \in DOMAIN tree.frames, pg \in TreePages :
          tree' = [Frame_load(tree, tree.frames[i], pg) EXCEPT
                      !.reloads = @ + 1, !.composited = FALSE]
    /\ UNCHANGED <<restvars, pool, clk, kbd>>

\* Tab.render, lines 131-137
RenderTree ==
    /\ tree.pc = "loaded"
    /\ ~tree.composited
    /\ tree' = composite_display_list(tree)
    /\ UNCHANGED <<restvars, pool, clk, kbd>>

TreeNext == LoadTree \/ SetLocationTree \/ RenderTree

TreeSpec == SideInit /\ [][TreeNext]_vars

-----------------------------------------------------------------------------
(* The SDL events of the browser thread that touch the keyboard focus *)

\* SDL_MOUSEBUTTONDOWN above chrome.bottom
KbdClickChrome ==
    /\ kbd.inputs < MaxKbdInputs
    /\ \E rect \in ChromeRegions, i \in 1..MaxKbdTabs :
          /\ rect = "newtab" => kbd.tabs < MaxKbdTabs
          /\ IF rect = "tab" THEN i <= kbd.tabs ELSE i = 1
          /\ kbd' = KbdHandled(kbd, click_chrome(kbd, rect, i), "click", 0)
    /\ UNCHANGED <<restvars, pool, clk, tree>>

\* SDL_MOUSEBUTTONDOWN below chrome.bottom
KbdClickContent ==
    /\ kbd.inputs < MaxKbdInputs
    /\ kbd' = KbdHandled(kbd, click_content(kbd), "click", 0)
    /\ UNCHANGED <<restvars, pool, clk, tree>>

\* SDL_TEXTINPUT
KbdTextInput ==
    /\ kbd.inputs < MaxKbdInputs
    /\ \E text \in KbdTexts :
          kbd' = KbdHandled(kbd, handle_text_input(kbd, text), "text", Len(text))
    /\ UNCHANGED <<restvars, pool, clk, tree>>

\* SDL_KEYDOWN with SDLK_BACKSPACE
KbdBackspace ==
    /\ kbd.inputs < MaxKbdInputs
    /\ kbd' = KbdHandled(kbd, handle_backspace(kbd), "backspace", 1)
    /\ UNCHANGED <<restvars, pool, clk, tree>>

\* SDL_KEYDOWN with SDLK_RETURN
KbdReturn ==
    /\ kbd.inputs < MaxKbdInputs
    /\ kbd' = KbdHandled(kbd, handle_return(kbd), "return", 0)
    /\ UNCHANGED <<restvars, pool, clk, tree>>

KbdNext ==
    KbdClickChrome \/ KbdClickContent \/ KbdTextInput \/ KbdBackspace \/ KbdReturn

KbdSpec == SideInit /\ [][KbdNext]_vars

-----------------------------------------------------------------------------
(* Properties of the main thread *)

EventTypes == {"LOAD", "CLICK", "KEYPRESS", "BACKSPACE", "SCROLL_DOWN", "SCROLL_UP",
               "SCROLL_TO", "RESIZE", "GO_BACK"}

\* the state right after _handle_event returned from an event of EventTypes
AfterEvent == pc = "task" /\ obs.handled \in EventTypes

ScrollInRange(t) == 0 <= t.scroll /\ t.scroll <= Max(0, get_max_y(t) - t.height)

\* C1: after every event handled by the main thread, tab.scroll lies in
\* [0, max(0, get_max_y() - tab.height)].
C1_ScrollInRangeAfterEveryEvent == AfterEvent => ScrollInRange(tab)

\* C2: the main-thread loop ends only by handling STOP: whenever the thread
\* is no longer in its loop, running has been cleared by a STOP event.
C2_LoopEndsOnlyOnStop == pc \in {"done", "crashed"} => ~running

BlankUrl == [schema |-> "about", host |-> "blank", port |-> NoPort, path |-> "/"]

\* the tab shows the about:blank document and the last step committed it
ShowsBlankCommitted ==
    /\ pc = "task"
    /\ tab.has_frame /\ tab.url = BlankUrl
    /\ tab.nodes = "" /\ tab.document = "" /\ tab.display_list = ""
    /\ obs.committed /\ commit = CommitData(tab) /\ commit.url = URL_str(BlankUrl)
    /\ commit.document_height = 2 * VSTEP

\* C3: when the page fetch of a load fails (unparsable URL, network error,
\* response with error set), Frame.load retries as about:blank: the frame
\* holds the about:blank document (status 200, empty body), the load runs to
\* completion and the handler publishes a commit for it.
C3_FetchFailureLoadsAboutBlank ==
    (obs.loaded /\ last_load.fellback) =>
        /\ ~last_load.raised /\ last_load.status = 200 /\ last_load.nodes = ""
        /\ last_load.reqs[Len(last_load.reqs)] = [url |-> AboutBlank, method |-> "GET"]
        /\ ShowsBlankCommitted

C3_Witness ==
    /\ obs.loaded /\ last_load.fellback /\ last_load.asked \in {Garbage, DownUrl}
    /\ ShowsBlankCommitted

\* C4: a load that ends in a Redirect error (budget exhausted by a cycle, or
\* a 3xx response without Location) leaves the tab showing about:blank with
\* a commit published for it.
C4_RedirectErrorShowsAboutBlank ==
    (obs.loaded /\ last_load.asked \in {LoopUrl, NoLocUrl}) => ShowsBlankCommitted

\* C5: with the default budget Frame.load follows a chain of up to 10
\* consecutive redirects and loads the final document, each hop re-issued as
\* a GET without payload.
C5_FollowsTenRedirects ==
    \A k \in 1..DefaultMaxRedirects :
        (obs.loaded /\ last_load.asked = HopUrl(k)) =>
            /\ ~last_load.raised
            /\ last_load.nodes = "tall"
            /\ Len(last_load.reqs) = k + 1
            /\ \A i \in 2..(k + 1) : last_load.reqs[i].method = "GET"

\* C6: tasks scheduled on the TaskRunner run in the order they were
\* scheduled, each once, at most one per loop iteration: the ids run so far
\* are 1, 2, ..., n in this order, the queue holds the ids n+1, ... up to the
\* last one scheduled in schedule order, and an iteration has run at most one.
C6_TasksRunInScheduleOrder ==
    /\ \A i \in 1..Len(ran) : ran[i] = i
    /\ \A i \in 1..Len(tasks) : tasks[i].id = Len(ran) + i
    /\ Len(ran) + Len(tasks) = scheduled
    /\ obs.ran_now <= 1

C6_Witness == Len(ran) >= 2 /\ Len(tasks) >= 1 /\ obs.ran_now = 1

\* C7: once the main thread has handled STOP, no queued task is executed and
\* no render or commit is performed.
C7_NothingRunsAfterStop ==
    ~running => (obs.ran_now = 0 /\ ~obs.rendered /\ ~obs.committed)

\* MainThread.run takes a GO_BACK from the queue and its handler returns
GoBackHandled ==
    /\ pc = "event"
    /\ event_queue # <<>>
    /\ Head(event_queue).type = "GO_BACK"
    /\ pc' = "task"

\* C16: GO_BACK on a history of depth greater than 1 pops the top entry and
\* loads the entry below it, which the tab then shows; on a history of depth
\* 1 or less it loads nothing and leaves the history as it is.
C16_GoBackPopsAndLoadsPrevious ==
    [][GoBackHandled =>
          IF Len(tab.history) > 1
          THEN /\ tab'.history = SubSeq(tab.history, 1, Len(tab.history) - 1)
               /\ obs'.loaded
               /\ last_load'.asked = tab.history[Len(tab.history) - 1]
          ELSE /\ tab'.history = tab.history
               /\ ~obs'.loaded]_vars

\* C17: the commit published for a page a navigation has loaded (LOAD, link
\* click, form submit, GO_BACK) carries scroll = 0, whatever the scroll was
\* before.
C17_NavigationResetsScroll ==
    (obs.loaded /\ obs.committed) => commit.scroll = 0

\* the tab has a laid-out document
HasDocument == tab.has_frame /\ tab.document # NoNodes

\* C18: an event that changes what the page shows (focus of an input, its
\* value, the viewport) leaves the tab dirty, and the commit that follows
\* carries a display list painted from the changed DOM and viewport: every
\* commit is painted from the tab as it is, and when the loop is back at its
\* top the tab has been painted and committed as it is.
C18_CommitCarriesFreshDisplayList ==
    /\ (obs.committed /\ HasDocument) => tab.painted = PaintTree(tab)
    /\ (pc = "event" /\ HasDocument) =>
          /\ tab.painted = PaintTree(tab)
          /\ commit.display_list = tab.display_list

\* C19: once the tab has navigated away from a document, no timer or XHR
\* callback of that document's JS context runs JavaScript: the callbacks
\* that run belong to the current document.
C19_OldContextCallbacksSuppressed ==
    obs.callback_gen # NoGen => obs.callback_gen = tab.gen

-----------------------------------------------------------------------------
(* Properties of the network thread *)

RequestIds == 1..MaxRequests

\* the callback of request i was called with the response of request i's own
\* exchange, and request i has left pending_requests
AnsweredOwn(i) ==
    /\ net.got[i].request_id = i
    /\ net.got[i].url = net.requests[i].url
    /\ IF Exchange(URLFactory_parse(net.requests[i].url)).raises
       THEN net.got[i].error /\ net.got[i].status = 0
       ELSE /\ ~net.got[i].error
            /\ net.got[i].status = Exchange(URLFactory_parse(net.requests[i].url)).status
            /\ net.got[i].body = Exchange(URLFactory_parse(net.requests[i].url)).body
    /\ i \notin net.pending

C9_SyncCallerReleased ==
    /\ [](\A c \in Mains :
            net.caller[c].pc = "returned" =>
                net.returned[c].request_id = net.caller[c].request.request_id)
    /\ \A c \in Mains :
            (net.caller[c].pc = "waiting") ~> (net.caller[c].pc = "returned")

\* the shared structures a thread is reading or writing at its position in
\* url.request
Touches(t) ==
    IF net.fetch[t].pc \in {"cache_get", "cache_set"} THEN {"cache"}
    ELSE IF net.fetch[t].pc = "socket" THEN {"socket_map"}
    ELSE IF net.fetch[t].pc = "cookies" THEN {"cookie_jar", "socket_map"}
    ELSE {}

\* C10: every read or write of the cookie jar, the response cache and the
\* connection-pool map is made by a network worker that holds a lock, and no
\* two threads access one of these structures at the same time.
C10_SharedStateLocked ==
    /\ \A t \in Fetchers : Touches(t) # {} => (t \in Workers /\ net.lock = t)
    /\ \A t, u \in Fetchers : t # u => Touches(t) \cap Touches(u) = {}

-----------------------------------------------------------------------------
(* Properties of the HTTP client *)

\* the request the client made last went to the server
SentRequest == client.last.op = "request" /\ client.last.socket_used

\* C11: when the cookie stored for the target host has samesite=lax, a
\* request that is not a GET and whose referrer is missing or of another host
\* is sent without a Cookie header; the POST of a form submitted through
\* Tab.load is such a request.
C11_LaxCookieWithheldCrossSite ==
    (/\ SentRequest
     /\ client.last.stored.samesite = "lax"
     /\ client.last.method # "GET"
     /\ client.last.referrer.host # URLFactory_parse(client.last.url).host)
    => ~client.last.cookie_sent

\* C12: CacheManager.get never returns an entry that has expired: an entry
\* it returns expires later than now and was stored less than its max-age
\* ago, and an entry it finds expired is gone from the cache after the call.
C12_GetNeverReturnsExpired ==
    client.last.op = "get" =>
        /\ client.last.lookup = "hit" =>
              /\ client.last.entry # NoEntry
              /\ client.last.entry.expires_at > client.last.at
              /\ client.last.at - client.last.entry.stored_at
                    < FirstMaxAge(client.last.entry.reply.cache_control)
        /\ client.last.lookup # "hit" => client.last.entry = NoEntry
        /\ client.last.lookup = "expired" => client.cache[client.last.url] = NoEntry

C12_Witness ==
    /\ client.last.op = "get"
    /\ client.last.lookup = "hit"
    /\ client.last.at > client.last.entry.stored_at

\* the reply read for a URL by a GET may be cached and has not expired
StillFresh(r, now) ==
    /\ r # NoReceived
    /\ r.method = "GET"
    /\ ~HasNoStore(r.reply.cache_control)
    /\ FirstMaxAge(r.reply.cache_control) > 0
    /\ now < r.at + FirstMaxAge(r.reply.cache_control)

\* C13: once a GET has read a reply with max-age=N (N > 0, no no-store) for a
\* URL, a request to that URL before the N seconds are over returns that
\* reply and neither opens nor uses a socket; a reply without max-age or with
\* no-store is never served from the cache.
C13_FreshReplyServedFromCache ==
    client.last.op = "request" =>
        /\ StillFresh(client.last.prior, client.last.at) =>
              /\ client.last.from_cache
              /\ client.last.reply = client.last.prior.reply
              /\ ~client.last.socket_opened
              /\ ~client.last.socket_used
        /\ client.last.from_cache =>
              /\ ~HasNoStore(client.last.reply.cache_control)
              /\ FirstMaxAge(client.last.reply.cache_control) # NoMaxAge

C13_Witness ==
    /\ client.last.op = "request"
    /\ client.last.from_cache
    /\ StillFresh(client.last.prior, client.last.at)
    /\ client.last.at > client.last.prior.at

-----------------------------------------------------------------------------
(* Properties of the UI thread and the compositor *)

\* the last commit tab t had published when the last drain ended
LatestSeen(t) == [tab_id |-> t, n |-> ui.seen[t]]

\* C14: when the UI thread has drained the commit queue, active_commit is
\* the commit the active tab published last; and a commit became
\* active_commit only while its tab was the active tab.
C14_ActiveCommitIsLatestOfActiveTab ==
    /\ (ui.drained /\ ui.active_tab # NoTab /\ ui.seen[ui.active_tab] > 0)
           => ui.active_commit = LatestSeen(ui.active_tab)
    /\ ui.active_commit # NoUiCommit => ui.active_commit.tab_id = ui.adopted_for

\* the compositor has just applied the packet of a frame in which it took
\* at least one
Applied == ui.comp.pc = "render" /\ ui.comp.taken > 0

\* C15: of the packets queued when a compositor frame starts only the newest
\* is applied: when the drain ends every packet submitted so far has left
\* the queue, current_data becomes the last of them, and a packet replaced by
\* a newer one is never rendered.
C15_OnlyNewestPacketApplied ==
    /\ Applied =>
          /\ ui.comp.current_data.seq = ui.comp.at_empty
          /\ \A i \in DOMAIN ui.data_queue : ui.data_queue[i].seq > ui.comp.at_empty
    /\ ui.comp.rendered \cap ui.comp.skipped = {}

C15_Witness ==
    /\ Applied
    /\ ui.comp.taken >= 2
    /\ ui.comp.skipped # {}
    /\ ui.comp.rendered # {}

-----------------------------------------------------------------------------
(* Properties of the stylesheet loading *)

\* the sheets whose rules the frame has
Contributed == {sheets.rules[i] : i \in DOMAIN sheets.rules}

\* sheet s arrived before sheet t
ArrivedBefore(s, t) ==
    \E i, j \in DOMAIN sheets.arrived :
        i < j /\ sheets.arrived[i] = s /\ sheets.arrived[j] = t

\* C20: the rules of the linked stylesheets are in the frame's rule set in
\* the order in which their fetches completed; a sheet whose fetch failed or
\* did not answer within the wait has no rules in it; and the load goes on
\* to render, scripts and iframes once every wait is over.
C20_RulesInArrivalOrder ==
    /\ \A i, j \in DOMAIN sheets.rules :
          i < j => ArrivedBefore(sheets.rules[i], sheets.rules[j])
    /\ \A s \in Contributed : sheets.holder[s] = "ok" /\ s \notin sheets.timed_out
    /\ sheets.pc = "done" => sheets.next > Len(sheets.pending)

-----------------------------------------------------------------------------
(* Properties of the subresource loading *)

IsScript(x) == x.kind = "script"

\* the scripts among a sequence of requests or tasks, by their place in the
\* document
RECURSIVE ScriptIndexes(_)
ScriptIndexes(q) ==
    IF q = <<>> THEN <<>>
    ELSE IF IsScript(Head(q)) THEN <<Head(q).index>> \o ScriptIndexes(Tail(q))
    ELSE ScriptIndexes(Tail(q))

InDocumentOrder(q) == \A i, j \in DOMAIN q : i < j => q[i] < q[j]

\* the scripts _load_scripts has fetched a body of, in document order
RECURSIVE FetchedScripts(_, _)
FetchedScripts(from, pg) ==
    IF from >= pg.next THEN <<>>
    ELSE IF from \in pg.failed
            \/ \A i \in DOMAIN pg.requested :
                  ~(IsScript(pg.requested[i]) /\ pg.requested[i].index = from)
         THEN FetchedScripts(from + 1, pg)
         ELSE <<from>> \o FetchedScripts(from + 1, pg)

\* C21: the scripts of a document are requested in document order, one at a
\* time; the script tasks are exactly the scripts whose fetch gave a body,
\* queued and run in document order, and none runs before the frame's first
\* render.
C21_ScriptsFetchedAndRunInDocumentOrder ==
    /\ InDocumentOrder(ScriptIndexes(page.requested))
    /\ \A i \in DOMAIN page.requested :
          IsScript(page.requested[i]) =>
             \/ page.requested[i].index < page.next
             \/ page.pc = "fetching" /\ page.requested[i].index = page.next
    /\ ScriptIndexes(page.executed) \o ScriptIndexes(page.tasks) = FetchedScripts(1, page)
    /\ ScriptIndexes(page.executed) # <<>> => page.rendered

\* the second of three scripts failed to load, a timer task ran, and the
\* first and the third script have run
C21_Witness ==
    /\ page.failed = {2}
    /\ ScriptIndexes(page.executed) = <<1, 3>>
    /\ Len(page.executed) = 3

\* the policy allows the resource
Allowed(pg, kind, host) ==
    ~pg.csp.present \/ allows_source(pg.csp, DirectiveOf(kind), host)

WasRequested(pg, kind, index) ==
    \E i \in DOMAIN pg.requested :
        pg.requested[i].kind = kind /\ pg.requested[i].index = index

\* C27: no stylesheet, script or iframe the frame's policy denies is ever
\* requested, and when the load has returned every resource the policy
\* allows has been requested.
C27_CspDeniedNeverRequested ==
    /\ \A i \in DOMAIN page.requested :
          Allowed(page, page.requested[i].kind, page.requested[i].host)
    /\ page.pc = "loaded" =>
          /\ Allowed(page, "stylesheet", page.sheet) => WasRequested(page, "stylesheet", 1)
          /\ \A k \in DOMAIN page.scripts :
                Allowed(page, "script", page.scripts[k]) => WasRequested(page, "script", k)
          /\ (page.iframe # NoIframe /\ Allowed(page, "iframe", page.iframe))
                => WasRequested(page, "iframe", 1)

\* the policy has no script-src and its default-src denies host a: the
\* first script is skipped, the second is requested and the load returns
C27_Witness ==
    /\ page.pc = "loaded"
    /\ page.csp.present
    /\ page.csp.directives["script-src"] = Absent
    /\ Len(page.scripts) >= 2
    /\ ~Allowed(page, "script", page.scripts[1])
    /\ ~WasRequested(page, "script", 1)
    /\ WasRequested(page, "script", 2)

-----------------------------------------------------------------------------
(* Properties of the host functions *)

\* the last call named a frame other than the caller's that was not of the
\* caller's origin
CrossOriginCall ==
    /\ frames.last.target # NoFrame
    /\ frames.last.target # frames.last.caller
    /\ \/ frames.last.caller_url = NoUrl
       \/ frames.last.target_url = NoUrl
       \/ origin(frames.last.caller_url) # origin(frames.last.target_url)

\* C22: an XMLHttpRequest_send to a URL of another origin than the
\* requesting frame's, or that the frame's connect-src denies, returns
\* "403 Forbidden", makes no request, starts no thread that would, and
\* schedules no onload task.
C22_CrossOriginXhrForbidden ==
    /\ (/\ frames.last.api = "XMLHttpRequest_send"
        /\ \/ origin(frames.last.url) # origin(frames.last.target_url)
           \/ /\ frames.last.target_csp.present
              /\ ~allows_source(frames.last.target_csp, "connect-src", frames.last.url.host))
          => /\ frames.last.returned = "403 Forbidden"
             /\ ~frames.last.requested
             /\ ~frames.last.started
    /\ frames.requests + frames.threads = frames.granted
    /\ frames.tasks = frames.requests

\* a script of the root frame asked for a URL of the child's origin, which
\* is not its own, and was refused
C22_Witness ==
    /\ frames.last.api = "XMLHttpRequest_send"
    /\ frames.last.caller = "root"
    /\ frames.last.target = "root"
    /\ origin(frames.last.url) # origin(frames.url["root"])
    /\ origin(frames.last.url) = origin(frames.url["child"])
    /\ frames.last.returned = "403 Forbidden"
    /\ frames.requests = 0

\* C23: for a target frame other than the script's own that is not
\* same-origin, querySelectorAll returns the empty list and exports no
\* handle, getLocationHref does not return the target's URL, and
\* setLocationHref loads nothing.
C23_CrossOriginFrameOpaque ==
    CrossOriginCall =>
        /\ frames.last.api = "querySelectorAll" =>
              frames.last.returned = "[]" /\ ~frames.last.exported
        /\ frames.last.api = "getLocationHref" =>
              frames.last.returned # URL_str(frames.last.target_url)
        /\ frames.last.api = "setLocationHref" => ~frames.last.loaded

\* C24: postMessage to a frame of the tab dispatches a message event in it
\* exactly when target_origin is "*" or the target frame's origin.
C24_PostMessageDeliveredIffOriginMatches ==
    (frames.last.api = "postMessage" /\ frames.last.target # NoFrame) =>
        (frames.last.delivered <=>
            \/ frames.last.target_origin = "*"
            \/ frames.last.target_origin = origin(frames.last.target_url))

-----------------------------------------------------------------------------
(* Properties of the frame ids *)

\* C25: two Frames never have the same frame_id, and a Frame never has a
\* second frame_id.
C25_FrameIdUniqueAndImmutable ==
    /\ \A f, g \in FrameObjects :
          (f # g /\ ids.frame_id[f] # NoId /\ ids.frame_id[g] # NoId)
             => ids.frame_id[f] # ids.frame_id[g]
    /\ \A f \in FrameObjects : Cardinality(ids.had[f]) <= 1

-----------------------------------------------------------------------------
(* Properties of the DOM *)

\* C28: every node known to the frame (in its document or behind a handle)
\* that has a parent is among its parent's children, and the root of the
\* document has no parent.
C28_ParentHoldsChild ==
    /\ \A n \in InDocument(dom) \cup dom.handles :
          dom.nodes[n].parent # NoNode =>
             InSeq(n, dom.nodes[dom.nodes[n].parent].children)
    /\ dom.root # NoNode => dom.nodes[dom.root].parent = NoNode

-----------------------------------------------------------------------------
(* Properties of layout *)

RECURSIVE AllBoxes(_)
\* the boxes of a layout tree
AllBoxes(box) ==
    {box} \cup UNION {AllBoxes(box.children[i]) : i \in DOMAIN box.children}

\* the children of a box follow one another downwards, the first at the
\* box's own y
Stacked(box) ==
    /\ \A i \in DOMAIN box.children :
          i > 1 => box.children[i].y >= box.children[i - 1].y + box.children[i - 1].height
    /\ box.children # <<>> => box.children[1].y = box.y

\* C29 as stated: after layout the children of every layout box are stacked.
C29_AllSiblingsStacked ==
    boxes.pc = "laid" => \A b \in AllBoxes(boxes.document) : Stacked(b)

\* C29, amended: after layout the BlockLayout and LineLayout children of
\* every DocumentLayout and BlockLayout are stacked; the words of a line
\* stand side by side on the line's baseline.
C29_BlocksAndLinesStacked ==
    boxes.pc = "laid" =>
        \A b \in AllBoxes(boxes.document) :
            b.kind \in {"document", "block"} => Stacked(b)

\* a paragraph whose two words wrap onto two lines below a first paragraph,
\* laid out again after a change of the document
C29_Witness ==
    /\ boxes.pc = "laid"
    /\ boxes.renders = 1
    /\ Len(boxes.document.children[1].children) = 2
    /\ Len(boxes.document.children[1].children[2].children) = 2
    /\ boxes.document.children[1].children[2].children[2].kind = "line"
    /\ boxes.document.children[1].children[2].children[2].children # <<>>
    /\ boxes.document.children[1].children[2].y > boxes.document.children[1].y

-----------------------------------------------------------------------------
(* Properties of the compositor *)

\* the compositor is between _raster_chrome and _blit_to_sdl
Rendering == gpu.compositor.pc \in {"raster_chrome", "raster_tab", "composite", "blit"}

\* C26: the root surface and the texture are those the compositor thread
\* created, never destroyed by another thread, and while the compositor
\* renders a frame they are the ones the frame began with.
C26_SurfacesOwnedByCompositor ==
    /\ gpu.compositor.root_surface.by = "compositor"
    /\ gpu.compositor.sdl_texture.by = "compositor"
    /\ gpu.compositor.sdl_texture.alive
    /\ Rendering =>
          /\ gpu.compositor.root_surface.id = gpu.compositor.frame_root
          /\ gpu.compositor.sdl_texture.id = gpu.compositor.frame_texture

\* C30: while the browser runs and the window keeps its size, the screen
\* eventually shows, and keeps showing, the display list of the latest
\* commit, whichever packets the compositor skipped.
C30_LatestCommitEventuallyOnScreen ==
    <>[]((gpu.browser.pc = "events" /\ gpu.browser.resizes = 0)
            => gpu.screen.tab = gpu.browser.active_commit.display_list)

-----------------------------------------------------------------------------
(* Properties of the session history *)

\* C31: the step that handles a GO_BACK on a history of depth n > 1 leaves
\* the history at depth n - 1.
C31_GoBackShortensHistory ==
    [][(/\ pc = "event"
        /\ event_queue # <<>>
        /\ Head(event_queue).type = "GO_BACK"
        /\ event_queue' = Tail(event_queue)
        /\ Len(tab.history) > 1)
          => Len(tab'.history) = Len(tab.history) - 1]_vars

-----------------------------------------------------------------------------
(* Properties of the active tab *)

\* C32: an active_commit that is not None is a commit of the active tab, and
\* so is the commit of the packet last handed to the compositor.
C32_ActiveCommitOfActiveTab ==
    /\ ui.active_commit # NoUiCommit => ui.active_commit.tab_id = ui.active_tab
    /\ (ui.data_queue # <<>> /\ Last(ui.data_queue).commit # NoUiCommit)
          => Last(ui.data_queue).commit.tab_id = ui.active_tab

-----------------------------------------------------------------------------
(* Properties of requests with a payload *)

\* C37: a request that carries a payload (a POST) is sent to the server,
\* never answered from the response cache.
C37_PostNeverServedFromCache ==
    (client.last.op = "request" /\ client.last.method = "POST")
        => (~client.last.from_cache /\ client.last.socket_used)

-----------------------------------------------------------------------------
(* Properties of the connection pool *)

\* the thread has sent its request on a socket and not yet read the response
InExchange(t) == pool.thread[t].pc \in {"read", "retry_read"}

\* C38: no two threads are inside a request/response exchange on the same
\* socket, and the response a thread reads answers its own request.
C38_OneExchangePerSocket ==
    /\ \A t, u \in Workers :
          (t # u /\ InExchange(t) /\ InExchange(u))
             => pool.thread[t].s # pool.thread[u].s
    /\ \A t \in Workers : pool.thread[t].got \in {NoThread, t}

\* C39: the socket stored under the https key is TLS-wrapped, no request
\* is sent more than twice or over a socket that is not wrapped, and the
\* pool hands out no closed socket.
C39_PooledSocketsAreTls ==
    /\ pool.socket_map # NoSock => pool.socks[pool.socket_map].tls
    /\ \A t \in Workers : pool.thread[t].sends <= 2 /\ ~pool.thread[t].handed_closed
    /\ \A id \in SocketIds : ~pool.socks[id].plain_sent

-----------------------------------------------------------------------------
(* Properties of clicks *)

\* C33: at most one element of the document has is_focus set, and it is
\* the element tab.focus refers to.
C33_OneFocusedElement ==
    /\ Cardinality(clk.is_focus) <= 1
    /\ \A e \in clk.is_focus : clk.focus = [gen |-> clk.gen, elt |-> e]

\* C34: a click calls Tab.load at most once.
C34_OneLoadPerClick == clk.loads <= 1

-----------------------------------------------------------------------------
(* Properties of the frame tree *)

RECURSIVE ReachableFrames(_, _)
\* the frames reachable from f through child_frames
ReachableFrames(st, f) ==
    {f} \cup UNION {ReachableFrames(st, st.frame[f].child_frames[i]) :
                        i \in DOMAIN st.frame[f].child_frames}

\* C35: Tab.frames holds the frames reachable from root_frame, each once,
\* every frame after its parent.
C35_FramesAreTheReachableFrames ==
    tree.pc = "loaded" =>
        /\ {tree.frames[i] : i \in DOMAIN tree.frames}
              = ReachableFrames(tree, tree.root_frame)
        /\ \A i, j \in DOMAIN tree.frames : tree.frames[i] = tree.frames[j] => i = j
        /\ \A i \in DOMAIN tree.frames :
              tree.frame[tree.frames[i]].parent_frame # NoTreeFrame
                 => \E j \in 1..(i - 1) :
                       tree.frames[j] = tree.frame[tree.frames[i]].parent_frame

\* C36: the composited display list is the depth-first composition from
\* the root frame: the commands of each reachable frame once, a parent's
\* before its children's.
C36_EachFrameCompositedOnce ==
    (tree.pc = "loaded" /\ tree.composited)
        => tree.display_list = get_display_list(tree, tree.root_frame)

-----------------------------------------------------------------------------
(* Properties of the keyboard focus *)

\* C40: chrome.focus = "address bar" and browser.focus = "content" never
\* hold together; the characters of a text input and a backspace go to the
\* address bar or, one event each, to the active tab's main thread, never
\* to both, and to the main thread only while the address bar is not
\* focused.
C40_FocusExclusive ==
    /\ ~(kbd.chrome_focus = "address bar" /\ kbd.focus = "content")
    /\ kbd.last.op \in {"text", "backspace"} =>
          /\ kbd.last.to_bar = 0 \/ kbd.last.to_tab = 0
          /\ kbd.last.to_bar + kbd.last.to_tab <= kbd.last.chars
          /\ kbd.last.to_tab > 0 =>
                (kbd.focus = "content" /\ kbd.chrome_focus # "address bar")
          /\ kbd.last.to_bar > 0 =>
                (kbd.chrome_focus = "address bar" /\ kbd.focus # "content")

\* a text typed into the content after one was typed into the address bar
C40_Witness ==
    /\ kbd.last.op = "text"
    /\ kbd.last.to_tab = 2
    /\ Len(kbd.address_bar) > 0
    /\ \E n \in DOMAIN kbd.posted : kbd.posted[n].type = "KEYPRESS"

====
